---------------------------- MODULE Spec2Model ----------------------------
(***************************************************************************)
(* Music streaming client/server: the playback queue (SongQueue), the      *)
(* MediaPlayer orchestrator, the Player stream loop, the network reader,   *)
(* and the server's per-client handler with its two loops.                 *)
(*                                                                         *)
(* Several specifications live in this module, one per part of the         *)
(* program; each leaves the variables of the other parts unchanged.        *)
(*   SpecQueue   - SongQueue methods called directly                       *)
(*   SpecShuffle - SongQueue.shuffle and unshuffle on any queue            *)
(*   SpecMP      - MediaPlayer methods, each handler one step              *)
(*   SpecMove    - SpecMP with move_up and move_down                       *)
(*   SpecHandler - ClientHandler teardown and the server registry          *)
(*   SpecStream  - start_song callers, reader, player loop, server loops   *)
(*   SpecSeek    - Player.set_progress                                     *)
(*   SpecChunk   - one search result sent in chunks and received           *)
(*   SpecConnect - the client's two connection loops                       *)
(*   SpecReorder - move_up and move_down on any queue                      *)
(*   SpecPair    - the server's acceptor loops and pairing loop            *)
(*   SpecPairFair - SpecPair, every started thread running on              *)
(*   SpecNet     - the client's network-request queue and its loop         *)
(*   SpecNetFair - SpecNet, the loop and the requesting threads running on *)
(*   SpecExit    - MediaPlayer.exit against the threads of SpecStream      *)
(*   SpecExitFair - SpecExit, every thread running on                      *)
(*   SpecHandlerFair - SpecHandler, every started thread running on        *)
(***************************************************************************)
EXTENDS Integers, Sequences, FiniteSets, TLC

VARIABLES
    \* ---- SongQueue (mediaplayer.py 468-563)
    queue,                \* SongQueue._queue: the play order, Song objects
    ordered_queue,        \* SongQueue._ordered_queue: the insertion order
    raised,               \* exception that escaped the last call ("none" if none)
    last_call,            \* the call made last: a SongQueue method's name,
                          \* "auto_next_song" for the auto_next_thread's call of
                          \* next_song, "other" for any other MediaPlayer call
    \* ---- MediaPlayer (mediaplayer.py 36-54)
    current_song_index,   \* MediaPlayer._current_song_index
    repeat_state,         \* MediaPlayer._repeat_state  0 off, 1 all, 2 one
    shuffle_state,        \* MediaPlayer._shuffle_state  0 off, 1 on
    connected,            \* MediaPlayer._connected
    auto_alive,           \* the auto_next_thread has not died of an exception
    started,              \* <<song id, parity>> of the last request start_song sent
    \* ---- threading.Events of MediaPlayer (mediaplayer.py 47-53)
    start_read_flag,
    currently_reading,
    next_index,           \* "stream ended", set by the player
    currently_streaming,  \* "stream terminated", set by the player
    \* ---- Server and ClientHandler (server.py 25-27, clienthandler.py 34-55)
    clients,              \* Server._clients: the registry of handlers
    handler_state,        \* per handler: "none", "constructed", "appended"
    loop_pc,              \* per handler and loop: where the loop's thread is
    communication_loop_ended,   \* ClientHandler._communication_loop_ended
    streaming_loop_ended,       \* ClientHandler._streaming_loop_ended
    thread_attr,          \* per handler: attributes _communication_thread,
                          \* _streaming_thread still exist (not yet del'ed)
    conn_open,            \* per handler and loop: the client's end is open
    fired,                \* per handler: number of "remove_client_handler" events
    \* ---- the threads that call start_song (controller.py 631-646,
    \*      mediaplayer.py 173-180)
    caller_pc,            \* per caller thread: where it is in start_song
    nreq,                 \* number of start_song calls begun so far
    found_requested,      \* a song of the catalog has been requested
    stop_requested,       \* terminate_stream was called since the last start_stream
    \* ---- MediaPlayer._read_from_server (mediaplayer.py 412-436)
    reader_pc,
    reader_n,             \* song_data_length, the announced frame count
    reader_i,             \* the loop counter i
    reader_song,          \* song id of the reply being read (0: not found)
    reader_cut,           \* "none": no exit tag read in this read, else the
                          \* stop_origin of the exit tag read
    desync,               \* the reader met an item of the wrong kind
    \* ---- Player (player.py 19-36)
    player_pc,
    song_data,            \* Player._song_data, the buffer
    song_data_length,     \* Player._song_data_length (_last_index is this - 1)
    current_index,        \* Player._current_index, the cursor
    stop,                 \* Player._stop
    stream_has_started,   \* Player._stream_has_started
    play_pause,           \* Player._play_pause (Event)
    start_stream_flag,    \* Player._start_stream_flag (Event)
    written,              \* packets written to the audio device in the stream
                          \* being played (<<>> between streams)
    signalled,            \* the player set "stream ended" in the stream being
                          \* played (FALSE between streams)
    \* ---- the two connections and the server's ClientHandler
    audio_c2s,            \* audio channel, client to server: song-id requests
    audio_s2c,            \* audio channel, server to client: counts, tags, packets
    ctrl,                 \* control channel: TERMINATE_SONG_DATA_RECV in flight
    stop_send,            \* ClientHandler._stop_send
    send_pc,              \* the audio loop: "recv" or "send"
    send_song,            \* song being sent
    send_i,               \* frames of it sent so far
    stop_origin,          \* what the audio loop was doing when _stop_send was
                          \* set: "in_flight" sending, "pending" idle with a
                          \* request waiting on the channel, "idle"; else "none"
    \* ---- one search result in transfer (clienthandler.py 129-138,
    \*      controller.py 728-740)
    payload,              \* the server's serialized_song, a sequence of bytes
    wire,                 \* control channel, server to client: bytes in flight
    srv_pc,               \* where _search_for_song is
    srv_i,                \* its loop counter i
    cli_pc,               \* where _search_request_handler is
    cli_j,                \* its loop counter j
    cli_data_length,      \* data_length as received
    cli_last_packet_length,   \* last_packet_length as received
    serialized_song,      \* the client's serialized_song, the bytes received
    \* ---- seeking (player.py 112-126)
    progress_value,       \* the value passed to the last set_progress call
    \* ---- the connection loops (mediaplayer.py 155-171, controller.py 801-818)
    conn_pc,              \* per channel: where _connect_to_server is
    reconnect,            \* per channel: the _reconnect event
    outcome,              \* per channel: how the last connection attempt ended
    attempts,             \* per channel: number of connect() calls so far
    \* ---- the server's acceptor loops and pairing loop (server.py 81-128)
    client_streaming_sockets,       \* Server._client_streaming_sockets
    client_communication_sockets,   \* Server._client_communication_sockets
    new_client,           \* Server._new_client (Event)
    accepted,             \* per acceptor loop: connections accepted so far
    listening_pc,         \* per acceptor loop: where it is
    listening_socket,     \* per acceptor loop: its local client_socket
    create_pc,            \* where _create_client_handler_loop is
    create_keys,          \* keys of list(...) the for loop has yet to visit
    client_full_id,       \* the for loop's variable
    create_args,          \* constructor arguments evaluated so far
    \* ---- the client's network requests (controller.py 614-629, 692-699)
    network_request_queue,      \* Controller._network_request_queue
    new_network_request_flag,   \* Controller._new_network_request_flag (Event)
    net_pc,               \* where _communication_loop is
    network_request,      \* its local network_request (0: none)
    sent_requests,        \* the requests executed, in the order of execution
    add_pc,               \* per requesting thread: where _add_network_request is
    added,                \* number of requests appended so far
    \* ---- leaving the player (mediaplayer.py 142-150, player.py 61-67)
    stream_loop_continue, \* Player._stream_loop_continue
    exit_pc               \* where MediaPlayer.exit is

qvars == <<queue, ordered_queue, raised, last_call>>
mpvars == <<current_song_index, repeat_state, shuffle_state, connected,
            auto_alive, started>>
evvars == <<start_read_flag, currently_reading, next_index, currently_streaming>>
hvars  == <<clients, handler_state, loop_pc, communication_loop_ended,
            streaming_loop_ended, thread_attr, conn_open, fired>>
cvars  == <<caller_pc, nreq, found_requested, stop_requested>>
rvars  == <<reader_pc, reader_n, reader_i, reader_song, reader_cut, desync>>
pvars  == <<player_pc, song_data, song_data_length, current_index, stop,
            stream_has_started, play_pause, start_stream_flag, written, signalled>>
nvars  == <<audio_c2s, audio_s2c, ctrl, stop_send, send_pc, send_song, send_i,
            stop_origin>>
svars  == <<cvars, rvars, pvars, nvars>>
tvars  == <<payload, wire, srv_pc, srv_i, cli_pc, cli_j, cli_data_length,
            cli_last_packet_length, serialized_song>>
kvars  == <<conn_pc, reconnect, outcome, attempts>>
dvars  == <<client_streaming_sockets, client_communication_sockets, new_client,
            accepted, listening_pc, listening_socket, create_pc, create_keys,
            client_full_id, create_args>>
wvars  == <<network_request_queue, new_network_request_flag, net_pc,
            network_request, sent_requests, add_pc, added,
            stream_loop_continue, exit_pc>>
xvars  == <<tvars, progress_value, kvars, dvars, wvars>>
vars   == <<qvars, mpvars, evvars, hvars, svars, xvars>>

----------------------------------------------------------------------------
(* Bounds *)
MaxSongId     == 3    \* SpecQueue: song ids are 1..MaxSongId
MaxQueueLen   == 3    \* SpecQueue: the queue holds at most this many songs
MPMaxSongId   == 2    \* SpecMP: song ids are 1..MPMaxSongId
MPMaxQueueLen == 2    \* SpecMP: the queue holds at most this many songs
MaxIndex      == 3    \* SpecMP: cap of current_song_index (it can run past the end)

SongIds == 1..MaxSongId
Handlers == {"h1", "h2"}                  \* the handlers the server creates
Loops == {"communication", "streaming"}   \* the two loops of a handler
Callers == {"internal", "auto"}           \* the threads that call start_song
MPSongIds == 1..MPMaxSongId

(* A Song object and a bare song id are different Python values: an int is *)
(* never equal to a Song (Song defines no __eq__).                         *)
Song(id) == <<"song", id>>
Id(id)   == <<"id", id>>
song_id(song) == song[2]

Min(a, b) == IF a < b THEN a ELSE b
Max(a, b) == IF a > b THEN a ELSE b

----------------------------------------------------------------------------
(* Python list primitives, 0-based indexes as in the source *)

\* s[i] of Python for an index already known to be in range
At(s, i) == s[i + 1]

\* Python's index normalisation for s[i] / s.pop(i): negative counts from the end
NormIndex(s, i) == IF i < 0 THEN i + Len(s) ELSE i
InRange(s, i) == NormIndex(s, i) >= 0 /\ NormIndex(s, i) < Len(s)

\* list.insert(i, x): the position is clamped into 0..len
ListInsert(s, i, x) ==
    LET p == IF i < 0 THEN Max(0, i + Len(s)) ELSE Min(i, Len(s))
    IN SubSeq(s, 1, p) \o <<x>> \o SubSeq(s, p + 1, Len(s))

\* list.pop(i) for an in-range index
ListPop(s, i) ==
    LET p == NormIndex(s, i)
    IN SubSeq(s, 1, p) \o SubSeq(s, p + 2, Len(s))

Contains(s, x) == \E k \in 1..Len(s) : s[k] = x

\* list.remove(x): removes the first occurrence (the caller checks Contains)
ListRemove(s, x) ==
    LET k == CHOOSE k \in 1..Len(s) : s[k] = x /\ \A j \in 1..(k - 1) : s[j] # x
    IN SubSeq(s, 1, k - 1) \o SubSeq(s, k + 1, Len(s))

\* number of occurrences of x in s
Count(s, x) == Cardinality({k \in 1..Len(s) : s[k] = x})

----------------------------------------------------------------------------
(* SongQueue: a value Q is [queue, ordered_queue, raised] *)

SQ == [queue |-> queue, ordered_queue |-> ordered_queue, raised |-> "none"]

\* SongQueue.clear_queue
clear_queue(Q) == [Q EXCEPT !.queue = <<>>, !.ordered_queue = <<>>]

\* SongQueue.insert_to_queue: the Song object itself goes to the ordered queue
insert_to_queue(Q, index, song) ==
    [Q EXCEPT !.queue = ListInsert(Q.queue, index, song),
              !.ordered_queue = ListInsert(Q.ordered_queue, index, song)]

\* SongQueue.pop_from_queue: ordered_queue.remove(queue[index].song_id), then pop
pop_from_queue(Q, index) ==
    IF ~InRange(Q.queue, index)
    THEN [Q EXCEPT !.raised = "IndexError"]
    ELSE LET id == Id(song_id(At(Q.queue, NormIndex(Q.queue, index))))
         IN IF ~Contains(Q.ordered_queue, id)
            THEN [Q EXCEPT !.raised = "ValueError"]
            ELSE [Q EXCEPT !.ordered_queue = ListRemove(Q.ordered_queue, id),
                           !.queue = ListPop(Q.queue, index)]

\* SongQueue.append_to_queue: the song id goes to the ordered queue
append_to_queue(Q, song) ==
    [Q EXCEPT !.queue = Append(Q.queue, song),
              !.ordered_queue = Append(Q.ordered_queue, Id(song_id(song)))]

\* q[i] = q[j] alone, the right-hand side not saved first
Swap_overwrite(Q, i, j) ==
    IF Q.raised # "none" THEN Q
    ELSE IF ~InRange(Q.queue, i) \/ ~InRange(Q.queue, j)
         THEN [Q EXCEPT !.raised = "IndexError"]
         ELSE [Q EXCEPT !.queue[NormIndex(Q.queue, i) + 1] =
                            Q.queue[NormIndex(Q.queue, j) + 1]]

\* the swap  q[i], q[j] = q[j], q[i]  of Python, IndexError when i or j is out of range
Swap(Q, i, j) ==
    IF Q.raised # "none" THEN Q
    ELSE IF ~InRange(Q.queue, i) \/ ~InRange(Q.queue, j)
    THEN [Q EXCEPT !.raised = "IndexError"]
    ELSE LET a == NormIndex(Q.queue, i) + 1
             b == NormIndex(Q.queue, j) + 1
         IN [Q EXCEPT !.queue = [@ EXCEPT ![a] = Q.queue[b], ![b] = Q.queue[a]]]

\* shuffle with the random numbers drawn from every index, the current one included
random_range_all(n, k) == 0..(n - 1)

\* SongQueue.shuffle, the list r: every index except current_song_index
random_range(n, k) ==
    (0..(k - 1)) \cup ((k + 1)..(n - 1))

\* SongQueue.shuffle, the loop from i on: Qs is the set of queues the random
\* choices made so far can have produced
RECURSIVE shuffle_from(_, _, _)
shuffle_from(Qs, i, k) ==
    LET n == Len((CHOOSE Q \in Qs : TRUE).queue)
    IN IF i >= n THEN Qs
       ELSE IF i = k THEN shuffle_from(Qs, i + 1, k)
       ELSE shuffle_from({Swap(Q, i, random_number) :
                              Q \in Qs, random_number \in random_range(n, k)},
                         i + 1, k)

\* SongQueue.shuffle: the set of outcomes over all random choices
shuffle(Q, k) ==
    IF Q.queue # <<>> THEN shuffle_from({Q}, 0, k) ELSE {Q}

\* unshuffle that swaps whenever i is not the current index
RECURSIVE unshuffle_from_any(_, _, _)
unshuffle_from_any(Q, i, k) ==
    IF i >= Len(Q.queue) \/ Q.raised # "none" THEN Q
    ELSE IF i >= Len(Q.ordered_queue) THEN [Q EXCEPT !.raised = "IndexError"]
    ELSE LET found == {p \in 1..Len(Q.queue) :
                           Id(song_id(Q.queue[p])) = Q.ordered_queue[i + 1]}
         IN IF found = {} THEN [Q EXCEPT !.raised = "StopIteration"]
            ELSE LET ordered_index == (CHOOSE p \in found : \A x \in found : p <= x) - 1
                 IN unshuffle_from_any(
                        IF i # k
                        THEN Swap(Q, i, ordered_index) ELSE Q,
                        i + 1, k)

\* SongQueue.unshuffle, the loop from i on: next(...) finds the first play-order
\* index whose song id equals ordered_queue[i] (StopIteration when there is none)
RECURSIVE unshuffle_from(_, _, _)
unshuffle_from(Q, i, k) ==
    IF i >= Len(Q.queue) \/ Q.raised # "none" THEN Q
    ELSE IF i >= Len(Q.ordered_queue) THEN [Q EXCEPT !.raised = "IndexError"]
    ELSE LET found == {p \in 1..Len(Q.queue) :
                           Id(song_id(Q.queue[p])) = Q.ordered_queue[i + 1]}
         IN IF found = {} THEN [Q EXCEPT !.raised = "StopIteration"]
            ELSE LET ordered_index == (CHOOSE p \in found : \A x \in found : p <= x) - 1
                 IN unshuffle_from(
                        IF i # k /\ ordered_index # k
                        THEN Swap(Q, i, ordered_index) ELSE Q,
                        i + 1, k)

\* unshuffle that leaves the play order as it is
unshuffle_skip(Q, k) == Q

\* SongQueue.unshuffle
unshuffle(Q, k) ==
    IF Q.queue # <<>> THEN unshuffle_from(Q, 0, k) ELSE Q

SetQ(Q, call) ==
    /\ last_call' = call
    /\ queue' = Q.queue
    /\ ordered_queue' = Q.ordered_queue
    /\ raised' = Q.raised

----------------------------------------------------------------------------
(* SpecQueue: the SongQueue methods called directly, from an empty queue *)

InitQ ==
    /\ queue = <<>>
    /\ ordered_queue = <<>>
    /\ raised = "none"
    /\ last_call = "none"

InitMP ==
    /\ current_song_index = 0
    /\ repeat_state = 0
    /\ shuffle_state = 0
    /\ connected = FALSE
    /\ auto_alive = TRUE
    /\ started = <<0, 0>>

\* MediaPlayer.run sets/clears the events
InitEv ==
    /\ start_read_flag = FALSE
    /\ currently_reading = TRUE
    /\ next_index = FALSE
    /\ currently_streaming = TRUE

QAppend ==
    \E id \in SongIds :
        /\ Len(queue) < MaxQueueLen
        /\ SetQ(append_to_queue(SQ, Song(id)), "append_to_queue")
        /\ UNCHANGED <<mpvars, evvars, hvars, svars, xvars>>

QInsert ==
    \E id \in SongIds, index \in -1..MaxQueueLen :
        /\ Len(queue) < MaxQueueLen
        /\ SetQ(insert_to_queue(SQ, index, Song(id)), "insert_to_queue")
        /\ UNCHANGED <<mpvars, evvars, hvars, svars, xvars>>

QPop ==
    \E index \in -1..MaxQueueLen :
        /\ SetQ(pop_from_queue(SQ, index), "pop_from_queue")
        /\ UNCHANGED <<mpvars, evvars, hvars, svars, xvars>>

NextQueue == QAppend \/ QInsert \/ QPop

\* Server.__init__: no handler yet
InitH ==
    /\ clients = <<>>
    /\ handler_state = [h \in Handlers |-> "none"]
    /\ loop_pc = [h \in Handlers |-> [l \in Loops |-> "idle"]]
    /\ communication_loop_ended = [h \in Handlers |-> FALSE]
    /\ streaming_loop_ended = [h \in Handlers |-> FALSE]
    /\ thread_attr = [h \in Handlers |-> [l \in Loops |-> FALSE]]
    /\ conn_open = [h \in Handlers |-> [l \in Loops |-> FALSE]]
    /\ fired = [h \in Handlers |-> 0]

\* MediaPlayer.__init__ / Player.__init__ / ClientHandler.__init__: every
\* thread at the top of its loop, nothing in flight
InitSRest ==
    /\ caller_pc = [t \in Callers |-> "idle"]
    /\ nreq = 0
    /\ found_requested = FALSE
    /\ stop_requested = FALSE
    /\ reader_pc = "wait"
    /\ reader_n = 0
    /\ reader_i = 0
    /\ reader_song = 0
    /\ reader_cut = "none"
    /\ desync = FALSE
    /\ player_pc = "wait_start"
    /\ song_data = <<>>
    /\ current_index = 0
    /\ stop = FALSE
    /\ stream_has_started = FALSE
    /\ play_pause = FALSE
    /\ start_stream_flag = FALSE
    /\ written = <<>>
    /\ signalled = FALSE
    /\ audio_c2s = <<>>
    /\ audio_s2c = <<>>
    /\ ctrl = 0
    /\ stop_send = FALSE
    /\ send_pc = "recv"
    /\ send_song = 0
    /\ send_i = 0
    /\ stop_origin = "none"

InitS == InitSRest /\ song_data_length = 0

Channels == {"audio", "control"}    \* the two connections of the client

\* the client full ids that reach the server, client id @ peer address; two
\* clients of one host have the same one when both run with the id of
\* configuration.get_client_id
FullIds == {"111111@10.0.0.1", "222222@10.0.0.1"}

\* the key is not in the dict, the local variable is not bound
NoSocket == [no |-> 0, channel |-> "none", id |-> "none"]

\* the threads that add network requests: the window's thread (search) and
\* a thread of the media player (terminate_song_data_recv)
Requesters == {"window", "mediaplayer"}

\* Controller.__init__ and Player.__init__: no request, the flag clear, the
\* stream loop to go on, exit() not called
InitW ==
    /\ network_request_queue = <<>>
    /\ new_network_request_flag = FALSE
    /\ net_pc = "wait"
    /\ network_request = 0
    /\ sent_requests = <<>>
    /\ add_pc = [t \in Requesters |-> "idle"]
    /\ added = 0
    /\ stream_loop_continue = TRUE
    /\ exit_pc = "idle"

\* Server.__init__: both pending dicts empty, the event clear; no thread of
\* run() has taken a step
InitD ==
    /\ client_streaming_sockets = [k \in FullIds |-> NoSocket]
    /\ client_communication_sockets = [k \in FullIds |-> NoSocket]
    /\ new_client = FALSE
    /\ accepted = [l \in Loops |-> 0]
    /\ listening_pc = [l \in Loops |-> "accept"]
    /\ listening_socket = [l \in Loops |-> NoSocket]
    /\ create_pc = "wait"
    /\ create_keys = {}
    /\ client_full_id = "none"
    /\ create_args = <<>>

\* no search result in transfer, no seek yet, the connection threads not
\* yet started (Controller.run and MediaPlayer.run set the events)
InitX ==
    /\ payload = <<>>
    /\ wire = <<>>
    /\ srv_pc = "idle"
    /\ srv_i = 0
    /\ cli_pc = "idle"
    /\ cli_j = 0
    /\ cli_data_length = 0
    /\ cli_last_packet_length = 0
    /\ serialized_song = <<>>
    /\ progress_value = 0
    /\ conn_pc = [ch \in Channels |-> "wait"]
    /\ reconnect = [ch \in Channels |-> FALSE]
    /\ outcome = [ch \in Channels |-> "none"]
    /\ attempts = [ch \in Channels |-> 0]
    /\ InitD
    /\ InitW

InitQueue == InitQ /\ InitMP /\ InitEv /\ InitH /\ InitS /\ InitX

SpecQueue == InitQueue /\ [][NextQueue]_vars

(* C1: after any sequence of append_to_queue / insert_to_queue /           *)
(* pop_from_queue calls from an empty queue, the multiset of song ids of   *)
(* the play order equals the multiset of entries of the insertion order.   *)
C1_SameMultiset ==
    /\ Len(queue) = Len(ordered_queue)
    /\ \A id \in SongIds : Count(queue, Song(id)) = Count(ordered_queue, Id(id))

----------------------------------------------------------------------------
(* SpecShuffle: shuffle and unshuffle applied to every queue whose         *)
(* insertion order holds exactly the ids of its play order                 *)

InitShuffleQ ==
    \E n \in 0..MaxQueueLen :
        \E ids \in [1..n -> SongIds], order \in [1..n -> SongIds] :
            /\ queue = [p \in 1..n |-> Song(ids[p])]
            /\ ordered_queue = [p \in 1..n |-> Id(order[p])]
            /\ \A id \in SongIds : Count(queue, Song(id)) = Count(ordered_queue, Id(id))
            /\ raised = "none"
            /\ last_call = "none"

\* SongQueue.shuffle(k), k the current_song_index passed, one outcome of the random choices
QShuffle(k) ==
    \E Q \in shuffle(SQ, k) :
        /\ SetQ(Q, "shuffle")
        /\ UNCHANGED <<mpvars, evvars, hvars, svars, xvars>>

\* SongQueue.unshuffle(k)
QUnshuffle(k) ==
    /\ SetQ(unshuffle(SQ, k), "unshuffle")
    /\ UNCHANGED <<mpvars, evvars, hvars, svars, xvars>>

\* TestSongQueue.test_unshuffle: shuffle(k) then unshuffle(k) with the same k
test_unshuffle(k) ==
    \E Q \in shuffle(SQ, k) :
        /\ SetQ(unshuffle(Q, k), "test_unshuffle")
        /\ UNCHANGED <<mpvars, evvars, hvars, svars, xvars>>

NextShuffle ==
    \/ \E k \in 0..MaxQueueLen : QShuffle(k)
    \/ \E k \in 0..MaxQueueLen : QUnshuffle(k)
    \/ \E k \in 0..MaxQueueLen : test_unshuffle(k)

InitShuffle == InitShuffleQ /\ InitMP /\ InitEv /\ InitH /\ InitS /\ InitX

SpecShuffle == InitShuffle /\ [][NextShuffle]_vars

\* no song id occurs twice in the play order q
DistinctIds(q) ==
    \A a, b \in 1..Len(q) : a # b => song_id(q[a]) # song_id(q[b])

\* the insertion order o holds exactly the ids of the play order q
HoldsIds(q, o) ==
    /\ Len(q) = Len(o)
    /\ \A id \in SongIds : Count(q, Song(id)) = Count(o, Id(id))

\* the play order q is the insertion order o
InOrder(q, o) ==
    /\ Len(q) = Len(o)
    /\ \A p \in 1..Len(q) : o[p] = Id(song_id(q[p]))

\* the 0-based positions of q whose song is not the one o names there
Misplaced(q, o) == {i \in 0..(Len(q) - 1) : o[i + 1] # Id(song_id(q[i + 1]))}

\* the 0-based positions of the entry x in the sequence s
PositionsOf(s, x) == {i \in 0..(Len(s) - 1) : s[i + 1] = x}

(* C12, as stated: for a queue with distinct song ids and 0 <= k < len,    *)
(* unshuffle(k) restores every play-order position i to the song whose id  *)
(* is insertion-order[i], except possibly position k and the position that *)
(* held the song with id insertion-order[k] before the restoration.        *)
C12_AsStated ==
    [][\A k \in 0..(Len(queue) - 1) :
         (/\ last_call' = "unshuffle"
          /\ DistinctIds(queue) /\ HoldsIds(queue, ordered_queue)
          /\ QUnshuffle(k))
         => Misplaced(queue', ordered_queue')
                \subseteq ({k} \cup PositionsOf(queue, Song(ordered_queue[k + 1][2])))]_vars

(* C12, amended: for a queue with distinct song ids whose insertion order  *)
(* holds exactly those ids and 0 <= k < len, unshuffle(k) leaves position  *)
(* k as it is and restores every other position i to the song whose id is  *)
(* insertion-order[i], except possibly the insertion-order position of the *)
(* song that sits at k.                                                    *)
C12_UnshuffleRestores ==
    [][\A k \in 0..(Len(queue) - 1) :
         (/\ last_call' = "unshuffle"
          /\ DistinctIds(queue) /\ HoldsIds(queue, ordered_queue)
          /\ QUnshuffle(k))
         => /\ raised' = "none"
            /\ ordered_queue' = ordered_queue
            /\ At(queue', k) = At(queue, k)
            /\ Misplaced(queue', ordered_queue')
                   \subseteq ({k} \cup PositionsOf(ordered_queue,
                                                   Id(song_id(At(queue, k)))))]_vars

\* unshuffle has run on three distinct songs and left two of them out of place
C12_Witness ==
    /\ last_call = "unshuffle"
    /\ raised = "none"
    /\ Len(queue) = 3
    /\ DistinctIds(queue)
    /\ HoldsIds(queue, ordered_queue)
    /\ Cardinality(Misplaced(queue, ordered_queue)) = 2

(* C13: shuffle(k) with 0 <= k < len never changes the song at play-order  *)
(* position k, whatever the random choices, and leaves the multiset of     *)
(* play-order entries and the insertion-order list unchanged.              *)
C13_Post(k) ==
    /\ At(queue', k) = At(queue, k)
    /\ Len(queue') = Len(queue)
    /\ \A id \in SongIds : Count(queue', Song(id)) = Count(queue, Song(id))
    /\ ordered_queue' = ordered_queue
    /\ raised' = "none"

\* QShuffle(k) => C13_Post(k), with the cheaper disjunct written first
C13_ShuffleKeepsCurrent ==
    [][\A k \in 0..(Len(queue) - 1) :
         C13_Post(k) \/ ~(last_call' = "shuffle" /\ QShuffle(k))]_vars

\* shuffle has moved two of three appended songs and kept the first in place
C13_Witness ==
    /\ last_call = "shuffle"
    /\ raised = "none"
    /\ Len(queue) = 3
    /\ DistinctIds(queue)
    /\ HoldsIds(queue, ordered_queue)
    /\ Misplaced(queue, ordered_queue) = {1, 2}

(* C14: for a queue built only by appends (play order equal to insertion   *)
(* order, distinct ids), shuffle(k) followed by unshuffle(k) with the same *)
(* k returns the play order to the insertion order at every position,      *)
(* whatever the random choices.                                            *)
C14_ShuffleUnshuffle ==
    [][\A k \in 0..(Len(queue) - 1) :
         (/\ last_call' = "test_unshuffle"
          /\ DistinctIds(queue) /\ InOrder(queue, ordered_queue)
          /\ test_unshuffle(k))
         => /\ raised' = "none"
            /\ InOrder(queue', ordered_queue')
            /\ ordered_queue' = ordered_queue]_vars

\* shuffle(k) then unshuffle(k) has run on three appended songs
C14_Witness ==
    /\ last_call = "test_unshuffle"
    /\ raised = "none"
    /\ Len(queue) = 3
    /\ DistinctIds(queue)
    /\ InOrder(queue, ordered_queue)

----------------------------------------------------------------------------
(* MediaPlayer: a value M holds the fields a method reads and writes.  A   *)
(* method is an operator from M to M; once M.raised is set the rest of the *)
(* method is skipped, as after a Python exception.                         *)

MP == [queue |-> queue, ordered_queue |-> ordered_queue, raised |-> "none",
       current_song_index |-> current_song_index,
       repeat_state |-> repeat_state, shuffle_state |-> shuffle_state,
       connected |-> connected,
       currently_streaming |-> currently_streaming, started |-> started]

QOf(M) == [queue |-> M.queue, ordered_queue |-> M.ordered_queue, raised |-> M.raised]
WithQ(M, Q) == [M EXCEPT !.queue = Q.queue, !.ordered_queue = Q.ordered_queue,
                         !.raised = Q.raised]

\* Controller.update_repeat_state -> Window.update_repeat_state ->
\* RepeatButton.set_state(1) fires "repeat_state", which calls set_repeat_state
update_repeat_state(M, state) == [M EXCEPT !.repeat_state = state]

\* MediaPlayer.set_repeat_state
set_repeat_state(M, state) == [M EXCEPT !.repeat_state = state]

\* MediaPlayer.start_song, as one step: the previous read and stream are
\* terminated and awaited (the player sets "stream terminated"), then the
\* request for queue[current_song_index] is sent and the stream started.
start_song(M) ==
    IF M.queue # <<>> /\ M.connected
    THEN IF ~InRange(M.queue, M.current_song_index)
         THEN [M EXCEPT !.raised = "IndexError", !.currently_streaming = TRUE]
         ELSE [M EXCEPT !.started =
                            <<song_id(At(M.queue,
                                         NormIndex(M.queue, M.current_song_index))),
                              1 - M.started[2]>>,
                        !.currently_streaming = FALSE]
    ELSE M

\* next_song with the repeat-all branch advancing past the last index
next_song_no_wrap(M, repeat_one) ==
    IF M.queue # <<>>
    THEN LET M1 == IF M.repeat_state = 2 /\ ~repeat_one
                   THEN update_repeat_state(M, 1) ELSE M
             last == Len(M1.queue) - 1
         IN IF repeat_one THEN start_song(M1)
            ELSE IF M1.repeat_state = 0 \/ M1.repeat_state = 1
            THEN start_song([M1 EXCEPT !.current_song_index =
                       IF @ # last THEN @ + 1 ELSE @])
            ELSE M1
    ELSE M

\* MediaPlayer.next_song
next_song(M, repeat_one) ==
    IF M.queue # <<>>
    THEN LET M1 == IF M.repeat_state = 2 /\ ~repeat_one
                   THEN update_repeat_state(M, 1) ELSE M
             last == Len(M1.queue) - 1
         IN IF repeat_one THEN start_song(M1)
            ELSE IF M1.repeat_state = 0
            THEN start_song([M1 EXCEPT !.current_song_index =
                       IF @ # last THEN @ + 1 ELSE @])
            ELSE IF M1.repeat_state = 1
            THEN start_song([M1 EXCEPT !.current_song_index =
                       IF @ = last THEN 0 ELSE @ + 1])
            ELSE M1
    ELSE M

\* MediaPlayer.previous_song
previous_song(M) ==
    LET M1 == IF M.repeat_state = 2 THEN update_repeat_state(M, 1) ELSE M
        M2 == IF M1.queue # <<>> /\ M1.current_song_index # 0
              THEN [M1 EXCEPT !.current_song_index = @ - 1] ELSE M1
    IN start_song(M2)

\* MediaPlayer.play_this
play_this(M, song) ==
    LET M1 == IF M.repeat_state = 2 THEN update_repeat_state(M, 1) ELSE M
        M2 == IF ~M1.currently_streaming
              THEN [WithQ(M1, insert_to_queue(QOf(M1), M1.current_song_index + 1, song))
                       EXCEPT !.current_song_index = @ + 1]
              ELSE WithQ(M1, insert_to_queue(QOf(M1), M1.current_song_index, song))
    IN start_song(M2)

\* MediaPlayer.add_to_queue
add_to_queue(M, song) == WithQ(M, append_to_queue(QOf(M), song))

\* MediaPlayer.remove_from_queue: only IndexError is caught
remove_from_queue(M, song_index) ==
    LET Q == pop_from_queue(QOf(M), song_index)
    IN WithQ(M, IF Q.raised = "IndexError" THEN [Q EXCEPT !.raised = "none"] ELSE Q)

\* MediaPlayer.move_up: the swap of song_index with song_index - 1
move_up(M, song_index) ==
    LET start == IF ~M.currently_streaming
                 THEN M.current_song_index + 1 ELSE M.current_song_index
    IN IF song_index > start
       THEN WithQ(M, Swap(QOf(M), song_index, song_index - 1))
       ELSE M

\* MediaPlayer.move_down: the swap of song_index with song_index + 1
move_down(M, song_index) ==
    IF song_index < Len(M.queue) - 1
    THEN WithQ(M, Swap(QOf(M), song_index, song_index + 1))
    ELSE M

\* MediaPlayer.delete_queue: with a stream active the song at the current
\* index is kept and the index becomes 0; without one the queue is emptied
delete_queue(M) ==
    IF ~M.currently_streaming /\ M.queue # <<>>
    THEN IF ~InRange(M.queue, M.current_song_index)
         THEN [M EXCEPT !.raised = "IndexError"]
         ELSE LET current_song ==
                      At(M.queue, NormIndex(M.queue, M.current_song_index))
                  Q == append_to_queue(clear_queue(QOf(M)), current_song)
              IN  [WithQ(M, Q) EXCEPT !.current_song_index = 0]
    ELSE IF M.currently_streaming /\ M.queue # <<>>
         THEN WithQ(M, clear_queue(QOf(M)))
         ELSE M

\* MediaPlayer.set_shuffle_state: the outcomes, one per outcome of the random
\* choices of shuffle; the state is stored before the queue is touched
set_shuffle_state(M, state) ==
    IF state = 1
    THEN {WithQ([M EXCEPT !.shuffle_state = 1], Q) :
              Q \in shuffle(QOf(M), M.current_song_index)}
    ELSE IF state = 0
    THEN {WithQ([M EXCEPT !.shuffle_state = 0],
                unshuffle(QOf(M), M.current_song_index))}
    ELSE {M}

SetM(M, call) ==
    /\ last_call' = IF call = "auto_next_song" THEN call ELSE "other"
    /\ queue' = M.queue
    /\ ordered_queue' = M.ordered_queue
    /\ raised' = M.raised
    /\ current_song_index' = M.current_song_index
    /\ repeat_state' = M.repeat_state
    /\ shuffle_state' = M.shuffle_state
    /\ connected' = M.connected
    /\ currently_streaming' = M.currently_streaming
    /\ started' = M.started

----------------------------------------------------------------------------
(* SpecMP: the MediaPlayer methods, each call one step *)

\* the streaming connection is established (_connect_to_server)
MPConnect ==
    /\ ~connected
    /\ connected' = TRUE
    /\ UNCHANGED <<qvars, current_song_index, repeat_state, shuffle_state,
                   auto_alive, started,
                   evvars, hvars, svars, xvars>>

MPAddToQueue ==
    \E id \in MPSongIds :
        /\ Len(queue) < MPMaxQueueLen
        /\ SetM(add_to_queue(MP, Song(id)), "add_to_queue")
        /\ UNCHANGED <<auto_alive, start_read_flag, currently_reading, next_index, hvars, svars, xvars>>

MPRemoveFromQueue(song_index) ==
    /\ SetM(remove_from_queue(MP, song_index), "remove_from_queue")
    /\ UNCHANGED <<auto_alive, start_read_flag, currently_reading, next_index, hvars, svars, xvars>>

MPPlayThis ==
    \E id \in MPSongIds :
        /\ Len(queue) < MPMaxQueueLen
        /\ current_song_index < MaxIndex
        /\ SetM(play_this(MP, Song(id)), "play_this")
        /\ UNCHANGED <<auto_alive, start_read_flag, currently_reading, next_index, hvars, svars, xvars>>

MPMoveUp(song_index) ==
    /\ SetM(move_up(MP, song_index), "move_up")
    /\ UNCHANGED <<auto_alive, start_read_flag, currently_reading, next_index, hvars, svars, xvars>>

MPMoveDown(song_index) ==
    /\ SetM(move_down(MP, song_index), "move_down")
    /\ UNCHANGED <<auto_alive, start_read_flag, currently_reading, next_index, hvars, svars, xvars>>

MPDeleteQueue ==
    /\ SetM(delete_queue(MP), "delete_queue")
    /\ UNCHANGED <<auto_alive, start_read_flag, currently_reading, next_index, hvars, svars, xvars>>

MPSetShuffleState(state) ==
    \E M \in set_shuffle_state(MP, state) :
        /\ SetM(M, "set_shuffle_state")
        /\ UNCHANGED <<auto_alive, start_read_flag, currently_reading, next_index, hvars, svars, xvars>>

MPNextSong ==
    /\ current_song_index < MaxIndex
    /\ SetM(next_song(MP, FALSE), "next_song")
    /\ UNCHANGED <<auto_alive, start_read_flag, currently_reading, next_index, hvars, svars, xvars>>

MPPreviousSong ==
    /\ SetM(previous_song(MP), "previous_song")
    /\ UNCHANGED <<auto_alive, start_read_flag, currently_reading, next_index, hvars, svars, xvars>>

MPSetRepeatState ==
    \E state \in 0..2 :
        /\ state # repeat_state
        /\ SetM(set_repeat_state(MP, state), "set_repeat_state")
        /\ UNCHANGED <<auto_alive, start_read_flag, currently_reading, next_index, hvars, svars, xvars>>

\* the stream of the current song stops: at the sentinel after playing
\* (ended = TRUE, "stream ended" is set) or without having played
MPStreamStops ==
    \E ended \in BOOLEAN :
        /\ ~currently_streaming
        /\ currently_streaming' = TRUE
        /\ next_index' = (next_index \/ ended)
        /\ UNCHANGED <<qvars, mpvars, start_read_flag, currently_reading, hvars, svars, xvars>>

\* MediaPlayer._auto_next_song: one pass of the loop; an exception that
\* escapes next_song ends the thread before next_index is cleared
auto_next_song ==
    /\ auto_alive
    /\ next_index
    /\ current_song_index < MaxIndex
    /\ LET M == next_song(MP, repeat_state = 2)
       IN /\ SetM(M, "auto_next_song")
          /\ auto_alive' = (M.raised = "none")
          /\ next_index' = IF M.raised = "none" THEN FALSE ELSE next_index
    /\ UNCHANGED <<start_read_flag, currently_reading, hvars, svars, xvars>>

NextMP ==
    \/ MPConnect
    \/ MPAddToQueue
    \/ \E song_index \in -1..MPMaxQueueLen : MPRemoveFromQueue(song_index)
    \/ MPPlayThis
    \/ MPNextSong
    \/ MPPreviousSong
    \/ MPSetRepeatState
    \/ MPStreamStops
    \/ auto_next_song

InitMPSpec == InitQ /\ InitMP /\ InitEv /\ InitH /\ InitS /\ InitX

SpecMP == InitMPSpec /\ [][NextMP]_vars

(* C10: on a "stream ended" signal with a non-empty queue the same index   *)
(* is restarted under repeat-one; otherwise the index advances by one,     *)
(* wrapping from the last index to 0 under repeat-all and staying at the   *)
(* last index under repeat-off.                                            *)
C10_Post ==
    LET last == Len(queue) - 1
    IN /\ queue' = queue
       /\ (repeat_state = 2 =>
             /\ current_song_index' = current_song_index
             /\ (connected /\ raised' = "none" => started' # started))
       /\ (repeat_state = 1 =>
             current_song_index' =
                 IF current_song_index = last THEN 0 ELSE current_song_index + 1)
       /\ (repeat_state = 0 =>
             current_song_index' =
                 IF current_song_index = last THEN last ELSE current_song_index + 1)

C11_Post ==
    LET streaming == ~currently_streaming
    IN /\ current_song_index' =
              IF streaming THEN current_song_index + 1 ELSE current_song_index
       /\ Len(queue') = Len(queue) + 1
       /\ current_song_index' < Len(queue')
       /\ \E id \in MPSongIds : At(queue', current_song_index') = Song(id)
       /\ ListPop(queue', current_song_index') = queue
       /\ repeat_state' = IF repeat_state = 2 THEN 1 ELSE repeat_state

C11_PlayThisPlacesSong == [][MPPlayThis => C11_Post]_vars

(* C15: in every reachable queue state remove_from_queue(i) with a valid   *)
(* index i removes exactly the song at play-order position i and one       *)
(* occurrence of its identifier from the insertion-order list; with an     *)
(* out-of-range index both lists are left unchanged; no exception escapes. *)
C15_Post(i) ==
    /\ raised' = "none"
    /\ IF i < Len(queue)
       THEN /\ queue' = ListPop(queue, i)
            /\ \E p \in 0..(Len(ordered_queue) - 1) :
                   /\ At(ordered_queue, p) = Id(song_id(At(queue, i)))
                   /\ ordered_queue' = ListPop(ordered_queue, p)
       ELSE /\ queue' = queue
            /\ ordered_queue' = ordered_queue

C15_RemoveFromQueue ==
    [][\A i \in 0..MPMaxQueueLen : MPRemoveFromQueue(i) => C15_Post(i)]_vars

----------------------------------------------------------------------------
(* SpecMove: the MediaPlayer methods together with move_up and move_down *)

NextMove ==
    \/ NextMP
    \/ \E song_index \in -1..MPMaxQueueLen : MPMoveUp(song_index)
    \/ \E song_index \in -1..MPMaxQueueLen : MPMoveDown(song_index)
    \/ MPDeleteQueue
    \/ \E state \in 0..1 : MPSetShuffleState(state)

SpecMove == InitMPSpec /\ [][NextMove]_vars

(* C16: while a stream is active, move_up(i) and move_down(i) swap         *)
(* adjacent play-order entries only if the target position (i - 1 for      *)
(* move_up, i + 1 for move_down) is ahead of the currently playing index;  *)
(* otherwise the play order is unchanged, so the currently playing entry   *)
(* and the entries before it are never reordered into the upcoming part.   *)
C16_Post(target) ==
    /\ queue' # queue => target > current_song_index
    /\ \A p \in 0..Min(current_song_index, Len(queue) - 1) : At(queue', p) = At(queue, p)

C16_MoveKeepsPlayedPart ==
    [][\A i \in -1..MPMaxQueueLen :
         /\ (~currently_streaming /\ MPMoveUp(i)) => C16_Post(i - 1)
         /\ (~currently_streaming /\ MPMoveDown(i)) => C16_Post(i + 1)]_vars

(* SpecReorder: move_up and move_down called on any queue built by        *)
(* add_to_queue, at any current index, with or without a stream active    *)

NextReorder ==
    \/ \E song_index \in -1..MaxQueueLen : MPMoveUp(song_index)
    \/ \E song_index \in -1..MaxQueueLen : MPMoveDown(song_index)

InitReorder ==
    /\ \E n \in 0..MaxQueueLen : \E ids \in [1..n -> SongIds] :
           /\ queue = [i \in 1..n |-> Song(ids[i])]
           /\ ordered_queue = [i \in 1..n |-> Id(ids[i])]
           /\ current_song_index \in 0..Max(0, n - 1)
    /\ raised = "none"
    /\ last_call = "none"
    /\ repeat_state = 0
    /\ shuffle_state = 0
    /\ connected = TRUE
    /\ auto_alive = TRUE
    /\ started = <<0, 0>>
    /\ start_read_flag = FALSE
    /\ currently_reading = TRUE
    /\ next_index = FALSE
    /\ currently_streaming \in BOOLEAN
    /\ InitH /\ InitS /\ InitX

SpecReorder == InitReorder /\ [][NextReorder]_vars

\* q2 is q with the entries at Python indices a and b exchanged
Exchanged(q, q2, a, b) ==
    /\ InRange(q, a) /\ InRange(q, b)
    /\ q2 = [q EXCEPT ![NormIndex(q, a) + 1] = q[NormIndex(q, b) + 1],
                      ![NormIndex(q, b) + 1] = q[NormIndex(q, a) + 1]]

\* the first index display_queue shows
FirstDisplayed ==
    IF ~currently_streaming THEN current_song_index + 1
    ELSE current_song_index

C25_Frame ==
    /\ raised' = "none"
    /\ ordered_queue' = ordered_queue
    /\ current_song_index' = current_song_index

\* C25 as stated: move_up(i) for i greater than the first displayed index
\* exchanges the play-order entries i and i - 1, and move_down(i) for
\* i < len - 1 exchanges the entries i and i + 1; every other position, the
\* insertion-order list, the length and the current index are unchanged.
C25_AsStated ==
    [][\A i \in -1..MaxQueueLen :
         /\ (i > FirstDisplayed /\ MPMoveUp(i)) =>
                (Exchanged(queue, queue', i, i - 1) /\ C25_Frame)
         /\ (i < Len(queue) - 1 /\ MPMoveDown(i)) =>
                (Exchanged(queue, queue', i, i + 1) /\ C25_Frame)]_vars

\* C25, amended: the same for i an index of the queue, that is with
\* i <= len - 1 for move_up and 0 <= i for move_down.
C25_MoveExchanges ==
    [][\A i \in -1..MaxQueueLen :
         /\ (i > FirstDisplayed /\ i <= Len(queue) - 1 /\ MPMoveUp(i)) =>
                (Exchanged(queue, queue', i, i - 1) /\ C25_Frame)
         /\ (0 <= i /\ i < Len(queue) - 1 /\ MPMoveDown(i)) =>
                (Exchanged(queue, queue', i, i + 1) /\ C25_Frame)]_vars

C25_Witness ==
    /\ queue = <<Song(2), Song(1), Song(3)>>
    /\ ordered_queue = <<Id(1), Id(2), Id(3)>>
    /\ current_song_index = 2
    /\ raised = "none"

\* the insertion-order list holds the ids of the play order, in order
IdsOf(q) == [i \in 1..Len(q) |-> Id(song_id(q[i]))]

\* C24: delete_queue with a stream active leaves the queue holding only
\* the song at the current index and sets the index to 0; with no stream
\* active it leaves the queue empty; either way the insertion-order list
\* holds exactly the ids of the resulting play order and no error escapes.
C24_Post ==
    /\ raised' = "none"
    /\ ~currently_streaming =>
          /\ InRange(queue, current_song_index)
          /\ queue' = <<At(queue, NormIndex(queue, current_song_index))>>
          /\ current_song_index' = 0
    /\ currently_streaming => queue' = <<>>
    /\ ordered_queue' = IdsOf(queue')

C24_DeleteQueue == [][MPDeleteQueue => C24_Post]_vars

\* the same for calls made with the current index inside the queue
DeleteQueueInRange ==
    [][(MPDeleteQueue /\ (~currently_streaming =>
                              InRange(queue, current_song_index)))
           => C24_Post]_vars

----------------------------------------------------------------------------
(* SpecHandler: the server's handlers, their two loops and the registry *)

\* Server._create_client_handler_loop, the ClientHandler(...) call: the
\* constructor starts both loop threads (run()) before it returns.  The one
\* pairing loop has appended the handler it built before it builds the next.
CreateClientHandler(h) ==
    /\ handler_state[h] = "none"
    /\ \A g \in Handlers : handler_state[g] # "constructed"
    /\ handler_state' = [handler_state EXCEPT ![h] = "constructed"]
    /\ loop_pc' = [loop_pc EXCEPT ![h] = [l \in Loops |-> "loop"]]
    /\ thread_attr' = [thread_attr EXCEPT ![h] = [l \in Loops |-> TRUE]]
    /\ conn_open' = [conn_open EXCEPT ![h] = [l \in Loops |-> TRUE]]
    /\ UNCHANGED <<clients, communication_loop_ended, streaming_loop_ended, fired>>

\* Server._create_client_handler_loop: self._clients.append(<the new handler>)
AppendClientHandler(h) ==
    /\ handler_state[h] = "constructed"
    /\ handler_state' = [handler_state EXCEPT ![h] = "appended"]
    /\ clients' = Append(clients, h)
    /\ UNCHANGED <<loop_pc, communication_loop_ended, streaming_loop_ended,
                   thread_attr, conn_open, fired>>

\* the client closes its end of one connection
ClientCloses(h, l) ==
    /\ conn_open[h][l]
    /\ conn_open' = [conn_open EXCEPT ![h][l] = FALSE]
    /\ UNCHANGED <<clients, handler_state, loop_pc, communication_loop_ended,
                   streaming_loop_ended, thread_attr, fired>>

\* _communication_loop: recv returns b"", ConnectionResetError is caught and
\* the loop's flag is set
communication_loop(h) ==
    /\ loop_pc[h]["communication"] = "loop"
    /\ ~conn_open[h]["communication"]
    /\ communication_loop_ended' = [communication_loop_ended EXCEPT ![h] = TRUE]
    /\ loop_pc' = [loop_pc EXCEPT ![h]["communication"] = "terminate_self"]
    /\ UNCHANGED <<clients, handler_state, streaming_loop_ended, thread_attr,
                   conn_open, fired>>

\* _streaming_loop: the same for the audio loop
streaming_loop(h) ==
    /\ loop_pc[h]["streaming"] = "loop"
    /\ ~conn_open[h]["streaming"]
    /\ streaming_loop_ended' = [streaming_loop_ended EXCEPT ![h] = TRUE]
    /\ loop_pc' = [loop_pc EXCEPT ![h]["streaming"] = "terminate_self"]
    /\ UNCHANGED <<clients, handler_state, communication_loop_ended, thread_attr,
                   conn_open, fired>>

\* the condition of _terminate_self with "or" in place of "and"
terminate_self_cond_or(h) ==
    communication_loop_ended[h] \/ streaming_loop_ended[h]

\* _terminate_self: if self._communication_loop_ended and self._streaming_loop_ended
terminate_self_cond(h) ==
    communication_loop_ended[h] /\ streaming_loop_ended[h]

\* _terminate_self, the test
terminate_self_check(h, l) ==
    /\ loop_pc[h][l] = "terminate_self"
    /\ loop_pc' = [loop_pc EXCEPT ![h][l] =
                      IF terminate_self_cond(h) THEN "del_communication_thread"
                      ELSE "returned"]
    /\ UNCHANGED <<clients, handler_state, communication_loop_ended,
                   streaming_loop_ended, thread_attr, conn_open, fired>>

\* a del that never fails: the attribute is taken to be there
has_attribute_always(attrs, h, name) == TRUE

\* del self.<name> succeeds only while the instance still has the attribute
has_attribute(attrs, h, name) == attrs[h][name]

\* _terminate_self: del self._communication_thread (AttributeError if gone)
terminate_self_del_communication(h, l) ==
    /\ loop_pc[h][l] = "del_communication_thread"
    /\ IF has_attribute(thread_attr, h, "communication")
       THEN /\ thread_attr' = [thread_attr EXCEPT ![h]["communication"] = FALSE]
            /\ loop_pc' = [loop_pc EXCEPT ![h][l] = "del_streaming_thread"]
       ELSE /\ loop_pc' = [loop_pc EXCEPT ![h][l] = "AttributeError"]
            /\ UNCHANGED thread_attr
    /\ UNCHANGED <<clients, handler_state, communication_loop_ended,
                   streaming_loop_ended, conn_open, fired>>

\* _terminate_self: del self._streaming_thread (AttributeError if gone)
terminate_self_del_streaming(h, l) ==
    /\ loop_pc[h][l] = "del_streaming_thread"
    /\ IF has_attribute(thread_attr, h, "streaming")
       THEN /\ thread_attr' = [thread_attr EXCEPT ![h]["streaming"] = FALSE]
            /\ loop_pc' = [loop_pc EXCEPT ![h][l] = "fire"]
       ELSE /\ loop_pc' = [loop_pc EXCEPT ![h][l] = "AttributeError"]
            /\ UNCHANGED thread_attr
    /\ UNCHANGED <<clients, handler_state, communication_loop_ended,
                   streaming_loop_ended, conn_open, fired>>

\* Server._remove_client_handler: every element that is the handler is removed
remove_client_handler(registry, h) == SelectSeq(registry, LAMBDA e : e # h)

\* _terminate_self: Event("remove_client_handler", self, self_fire=True); the
\* listener Server._remove_client_handler runs in the firing thread
terminate_self_fire(h, l) ==
    /\ loop_pc[h][l] = "fire"
    /\ fired' = [fired EXCEPT ![h] = @ + 1]
    /\ clients' = remove_client_handler(clients, h)
    /\ loop_pc' = [loop_pc EXCEPT ![h][l] = "returned"]
    /\ UNCHANGED <<handler_state, communication_loop_ended, streaming_loop_ended,
                   thread_attr, conn_open>>

NotHandler == <<qvars, mpvars, evvars, svars, xvars>>

NextHandler ==
    \/ \E h \in Handlers : CreateClientHandler(h) /\ UNCHANGED NotHandler
    \/ \E h \in Handlers : AppendClientHandler(h) /\ UNCHANGED NotHandler
    \/ \E h \in Handlers : communication_loop(h) /\ UNCHANGED NotHandler
    \/ \E h \in Handlers : streaming_loop(h) /\ UNCHANGED NotHandler
    \/ \E h \in Handlers, l \in Loops : ClientCloses(h, l) /\ UNCHANGED NotHandler
    \/ \E h \in Handlers, l \in Loops :
            terminate_self_check(h, l) /\ UNCHANGED NotHandler
    \/ \E h \in Handlers, l \in Loops :
            terminate_self_del_communication(h, l) /\ UNCHANGED NotHandler
    \/ \E h \in Handlers, l \in Loops :
            terminate_self_del_streaming(h, l) /\ UNCHANGED NotHandler
    \/ \E h \in Handlers, l \in Loops :
            terminate_self_fire(h, l) /\ UNCHANGED NotHandler

InitHandlerSpec == InitQ /\ InitMP /\ InitEv /\ InitH /\ InitS /\ InitX

SpecHandler == InitHandlerSpec /\ [][NextHandler]_vars

(* C5: a handler fires "remove_client_handler", and leaves the registry,   *)
(* only after both its control loop and its audio loop have observed       *)
(* connection loss: while either loop is still in its receive loop the     *)
(* handler has not fired and, once appended, is in the registry.           *)
C5_RemovedOnlyAfterBothLost ==
    \A h \in Handlers :
        (\E l \in Loops : loop_pc[h][l] \in {"idle", "loop"}) =>
            /\ fired[h] = 0
            /\ (handler_state[h] = "appended" => Contains(clients, h))

\* a handler has been removed after both loops observed the loss
C5_Witness ==
    \E h \in Handlers :
        /\ fired[h] = 1
        /\ handler_state[h] = "appended"
        /\ ~Contains(clients, h)
        /\ \A l \in Loops : loop_pc[h][l] \in {"returned", "AttributeError"}


(***************************************************************************)
(* SpecStream: one song request end to end.  The threads are the two       *)
(* callers of start_song (the controller's internal-request thread and the *)
(* auto_next_thread), the reader (_read_from_server), the player's         *)
(* stream_loop, the user pressing play/pause, and on the server the audio  *)
(* loop (_streaming_loop / _send_song_data) and the control loop           *)
(* (_communication_loop).  Each step is one statement, or consecutive      *)
(* statements between which no other thread's step makes a difference.     *)
(***************************************************************************)

MaxFrames   == 2    \* catalog song k has k complete frames, k in 1..MaxFrames
MaxRequests == 3    \* start_song calls explored in one behaviour

CatalogIds == 1..MaxFrames           \* song ids the database knows
RequestIds == 1..(MaxFrames + 1)     \* the last one is not in the catalog

\* ---- what travels on the audio connection, and what the buffer holds
Packet(song, k) == <<"pkt", song, k>>         \* 4096 bytes of PCM, frame k
END_OF_FILE     == <<"END_OF_FILE", 0, 0>>    \* the sentinel of the buffer
CountItem(n, song) == <<"count", n, song>>    \* 4-byte frame count
type_data       == <<"data", 0, 0>>           \* 4-byte tag "data"
type_exit(origin) == <<"exit", origin, 0>>    \* 4-byte tag "exit"

\* ClientHandler._get_song_and_length: the frame count, -1 for None
get_song_and_length(id) == IF id \in CatalogIds THEN id ELSE -1

\* the buffer after a complete read of a catalog song
FullBuffer(song) ==
    [k \in 1..(get_song_and_length(song) + 1) |->
        IF k <= get_song_and_length(song) THEN Packet(song, k - 1)
                                          ELSE END_OF_FILE]

\* ---- start_song, one caller thread t ------------------------------------

\* the caller enters start_song (the auto thread first waits for "stream
\* ended", then calls next_song) and runs _terminate_read, which puts
\* TERMINATE_SONG_DATA_RECV on the control channel unless currently_reading
\* is set.  The moves of the index made before start_song are not followed
\* here: any song of the queue can be the current one.
start_song_terminate_read(t) ==
    /\ caller_pc[t] = "idle"
    /\ nreq < MaxRequests
    /\ t = "auto" => next_index
    /\ connected /\ queue # <<>>
    /\ ctrl' = IF currently_reading THEN ctrl ELSE ctrl + 1
    /\ nreq' = nreq + 1
    /\ caller_pc' = [caller_pc EXCEPT ![t] = "wait_reading"]
    /\ UNCHANGED <<found_requested, stop_requested, rvars, pvars, evvars,
                   audio_c2s, audio_s2c, stop_send, send_pc, send_song, send_i,
                   stop_origin>>

\* _currently_reading.wait(); _player.terminate_stream()
start_song_terminate_stream(t) ==
    /\ caller_pc[t] = "wait_reading"
    /\ currently_reading
    /\ stop' = TRUE
    /\ play_pause' = TRUE
    /\ stop_requested' = TRUE
    /\ caller_pc' = [caller_pc EXCEPT ![t] = "wait_streaming"]
    /\ UNCHANGED <<nreq, found_requested, rvars, evvars, nvars,
                   player_pc, song_data, song_data_length, current_index,
                   stream_has_started, start_stream_flag, written, signalled>>

\* _currently_streaming.wait(); the id of the current song is read and sent:
\* streaming_tcp_send(request_song_id_bytes, 4)
start_song_send(t) ==
    /\ caller_pc[t] = "wait_streaming"
    /\ currently_streaming
    /\ \E k \in 1..Len(queue) :
        /\ audio_c2s' = Append(audio_c2s, song_id(queue[k]))
        /\ found_requested' = (found_requested \/ song_id(queue[k]) \in CatalogIds)
    /\ caller_pc' = [caller_pc EXCEPT ![t] = "start_read"]
    /\ UNCHANGED <<nreq, stop_requested, rvars, pvars, evvars, audio_s2c, ctrl,
                   stop_send, send_pc, send_song, send_i, stop_origin>>

\* _start_read, first statement: _start_read_flag.set()
start_read_set_flag(t) ==
    /\ caller_pc[t] = "start_read"
    /\ start_read_flag' = TRUE
    /\ caller_pc' = [caller_pc EXCEPT ![t] = "clear_reading"]
    /\ UNCHANGED <<nreq, found_requested, stop_requested, rvars,
                   pvars, nvars, currently_reading, next_index,
                   currently_streaming>>

\* _start_read, second statement: _currently_reading.clear()
start_read_clear_reading(t) ==
    /\ caller_pc[t] = "clear_reading"
    /\ currently_reading' = FALSE
    /\ caller_pc' = [caller_pc EXCEPT ![t] = "start_stream"]
    /\ UNCHANGED <<nreq, found_requested, stop_requested, rvars,
                   pvars, nvars, start_read_flag, next_index,
                   currently_streaming>>

\* Player.start_stream, first statement: _terminate_stream_event.clear()
start_stream_clear(t) ==
    /\ caller_pc[t] = "start_stream"
    /\ currently_streaming' = FALSE
    /\ stop_requested' = FALSE
    /\ caller_pc' = [caller_pc EXCEPT ![t] = "set_start_flag"]
    /\ UNCHANGED <<nreq, found_requested, rvars, pvars, nvars,
                   start_read_flag, currently_reading, next_index>>

\* Player.start_stream, the rest: _start_stream_flag.set(); _play_pause.set()
start_stream_set(t) ==
    /\ caller_pc[t] = "set_start_flag"
    /\ start_stream_flag' = TRUE
    /\ play_pause' = TRUE
    /\ caller_pc' = [caller_pc EXCEPT ![t] = IF t = "auto" THEN "clear_next"
                                                           ELSE "idle"]
    /\ UNCHANGED <<nreq, found_requested, stop_requested, rvars,
                   evvars, nvars, player_pc, song_data, song_data_length,
                   current_index, stop, stream_has_started, written, signalled>>

\* _auto_next_song, after next_song returned: _next_index.clear()
auto_next_clear ==
    /\ caller_pc["auto"] = "clear_next"
    /\ next_index' = FALSE
    /\ caller_pc' = [caller_pc EXCEPT !["auto"] = "idle"]
    /\ UNCHANGED <<nreq, found_requested, stop_requested, rvars,
                   pvars, nvars, start_read_flag, currently_reading,
                   currently_streaming>>

\* ---- the user: Player.change_play_state ----------------------------------
change_play_state ==
    /\ play_pause' = ~play_pause
    /\ UNCHANGED <<cvars, rvars, evvars, nvars, player_pc, song_data,
                   song_data_length, current_index, stop, stream_has_started,
                   start_stream_flag, written, signalled>>

\* ---- the reader: MediaPlayer._read_from_server -------------------------

\* _start_read_flag.wait(); _currently_reading.clear(); _start_read_flag.clear()
read_begin ==
    /\ reader_pc = "wait"
    /\ start_read_flag
    /\ currently_reading' = FALSE
    /\ start_read_flag' = FALSE
    /\ reader_pc' = "recv_length"
    /\ UNCHANGED <<cvars, pvars, nvars, next_index, currently_streaming,
                   reader_n, reader_i, reader_song, reader_cut, desync>>

\* streaming_tcp_recv(4) read as the count; set_song_data_length
read_length ==
    /\ reader_pc = "recv_length"
    /\ audio_s2c # <<>>
    /\ LET item == Head(audio_s2c)
           n    == IF item[1] = "count" THEN item[2] ELSE 0
       IN  /\ desync' = (desync \/ item[1] # "count")
           /\ reader_n' = n
           /\ reader_song' = IF item[1] = "count" THEN item[3] ELSE 0
           /\ song_data_length' = n
           /\ reader_pc' = IF n > 0 THEN "recv_frame" ELSE "finally"
    /\ reader_i' = 0
    /\ audio_s2c' = Tail(audio_s2c)
    /\ UNCHANGED <<cvars, evvars, reader_cut, player_pc, song_data,
                   current_index, stop, stream_has_started, play_pause,
                   start_stream_flag, written, signalled, audio_c2s, ctrl,
                   stop_send, send_pc, send_song, send_i, stop_origin>>

\* one iteration of `for i in range(song_data_length)`: what the reader does
\* with the items at the head of the channel.  Returns the items consumed,
\* the packet received (<<>> if none), whether the loop breaks, and whether
\* the tag was of a kind the protocol does not send here.
read_frame_step(chan) ==
    IF Head(chan) = type_data
    THEN [consumed |-> 2, packet |-> <<chan[2]>>, break |-> FALSE,
          bad |-> chan[2][1] # "pkt", cut |-> "none"]
    ELSE IF Head(chan)[1] = "exit"
    THEN [consumed |-> 1, packet |-> <<>>, break |-> TRUE, bad |-> FALSE,
          cut |-> Head(chan)[2]]
    ELSE [consumed |-> 1, packet |-> <<>>, break |-> FALSE, bad |-> TRUE,
          cut |-> "none"]

read_frame ==
    /\ reader_pc = "recv_frame"
    /\ audio_s2c # <<>>
    /\ Head(audio_s2c) = type_data => Len(audio_s2c) >= 2
    /\ LET r == read_frame_step(audio_s2c)
       IN  /\ audio_s2c' = SubSeq(audio_s2c, r.consumed + 1, Len(audio_s2c))
           /\ song_data' = song_data \o r.packet
           /\ desync' = (desync \/ r.bad)
           /\ reader_cut' = IF r.break THEN r.cut ELSE reader_cut
           /\ reader_i' = reader_i + 1
           /\ reader_pc' = IF r.break \/ reader_i + 1 = reader_n
                           THEN "finally" ELSE "recv_frame"
    /\ UNCHANGED <<cvars, evvars, reader_n, reader_song, player_pc,
                   song_data_length, current_index, stop, stream_has_started,
                   play_pause, start_stream_flag, written, signalled,
                   audio_c2s, ctrl, stop_send, send_pc, send_song, send_i,
                   stop_origin>>

\* finally: receive_packet("END_OF_FILE")
read_finally ==
    /\ reader_pc = "finally"
    /\ song_data' = Append(song_data, END_OF_FILE)
    /\ reader_pc' = "set_reading"
    /\ UNCHANGED <<cvars, evvars, nvars, reader_n, reader_i, reader_song,
                   reader_cut, desync, player_pc, song_data_length,
                   current_index, stop, stream_has_started, play_pause,
                   start_stream_flag, written, signalled>>

\* finally: _currently_reading.set().  The locals of the iteration are dead
\* from here on and are put back to their initial values.
read_set_reading ==
    /\ reader_pc = "set_reading"
    /\ currently_reading' = TRUE
    /\ reader_pc' = "wait"
    /\ reader_n' = 0
    /\ reader_i' = 0
    /\ reader_song' = 0
    /\ reader_cut' = "none"
    /\ UNCHANGED <<cvars, pvars, nvars, desync, start_read_flag, next_index,
                   currently_streaming>>

\* ---- the player: Player.stream_loop -------------------------------------

\* _start_stream_flag.wait(); .clear(); _set_start_conditions(); the break
\* that leaves stream_loop when _stream_loop_continue is False
stream_begin ==
    /\ player_pc = "wait_start"
    /\ start_stream_flag
    /\ start_stream_flag' = FALSE
    /\ stream_has_started' = TRUE
    /\ stop' = FALSE
    /\ play_pause' = TRUE
    /\ current_index' = 0
    /\ written' = <<>>
    /\ signalled' = FALSE
    /\ player_pc' = IF stream_loop_continue THEN "loop" ELSE "exited"
    /\ UNCHANGED <<cvars, rvars, evvars, nvars, song_data, song_data_length>>

\* the condition of the inner while: "stop" (the flag), "end" (the cursor is
\* on the sentinel), "play", or "IndexError" (the cursor is past the buffer)
stream_loop_cond(stop_flag, data, index) ==
    IF stop_flag THEN "stop"
    ELSE IF index >= Len(data) THEN "IndexError"
    ELSE IF At(data, index) = END_OF_FILE THEN "end"
    ELSE "play"

\* the loop condition holds: go on to write the packet
stream_loop_play ==
    /\ player_pc = "loop"
    /\ stream_loop_cond(stop, song_data, current_index) = "play"
    /\ player_pc' = "write"
    /\ UNCHANGED <<cvars, rvars, evvars, nvars, song_data, song_data_length,
                   current_index, stop, stream_has_started, play_pause,
                   start_stream_flag, written, signalled>>

\* the loop condition fails: end = True; finally: _set_end_conditions().
\* (On IndexError the thread sleeps and evaluates the condition again, which
\* changes nothing.)  Then the outer while tests _stream_loop_continue.
stream_loop_end ==
    /\ player_pc = "loop"
    /\ stream_loop_cond(stop, song_data, current_index) \in {"stop", "end"}
    /\ song_data' = <<>>
    /\ stream_has_started' = FALSE
    /\ current_index' = 0
    /\ currently_streaming' = TRUE
    /\ player_pc' = IF stream_loop_continue THEN "wait_start" ELSE "exited"
    /\ written' = <<>>
    /\ signalled' = FALSE
    /\ UNCHANGED <<cvars, rvars, nvars, start_read_flag, currently_reading,
                   next_index, song_data_length, stop, play_pause,
                   start_stream_flag>>

\* Python's round(a / b): to the nearest integer, a tie to the even one
Round(a, b) ==
    LET n == IF b < 0 THEN 0 - a ELSE a
        d == IF b < 0 THEN 0 - b ELSE b
        q == n \div d
        r == n % d
    IN  IF 2 * r < d THEN q
        ELSE IF 2 * r > d THEN q + 1
        ELSE IF q % 2 = 0 THEN q ELSE q + 1

\* the progress computed after a write: round(current_index * 1000 /
\* _last_index); "ZeroDivisionError" when _last_index is 0
progress_from_index(index, length) ==
    IF length - 1 = 0 THEN [raised |-> "ZeroDivisionError", value |-> 0]
    ELSE [raised |-> "none", value |-> Round(index * 1000, length - 1)]

\* _stream.write(packet); progress.  A ZeroDivisionError is caught by no
\* except clause of stream_loop and ends the thread.
stream_write ==
    /\ player_pc = "write"
    /\ written' = IF current_index < Len(song_data)
                  THEN Append(written, At(song_data, current_index))
                  ELSE written
    /\ player_pc' = IF current_index >= Len(song_data) THEN "loop"
                    ELSE IF progress_from_index(current_index,
                                                song_data_length).raised
                            = "ZeroDivisionError"
                    THEN "ZeroDivisionError"
                    ELSE "play_pause_wait"
    /\ UNCHANGED <<cvars, rvars, evvars, nvars, song_data, song_data_length,
                   current_index, stop, stream_has_started, play_pause,
                   start_stream_flag, signalled>>

\* the advance without the wait on the play/pause flag
stream_advance_no_wait ==
    /\ player_pc = "play_pause_wait"
    /\ current_index' = current_index + 1
    /\ LET at_end == /\ current_index + 1 < Len(song_data)
                     /\ At(song_data, current_index + 1) = END_OF_FILE
       IN  /\ next_index' = (next_index \/ at_end)
           /\ signalled' = (signalled \/ at_end)
    /\ player_pc' = "loop"
    /\ UNCHANGED <<cvars, rvars, nvars, start_read_flag, currently_reading,
                   currently_streaming, song_data, song_data_length, stop,
                   stream_has_started, play_pause, start_stream_flag, written>>

\* _play_pause.wait(); _current_index += 1; the sentinel check that sets
\* "stream ended" (an IndexError there goes back to the loop condition)
stream_advance ==
    /\ player_pc = "play_pause_wait"
    /\ play_pause
    /\ current_index' = current_index + 1
    /\ LET at_end == /\ current_index + 1 < Len(song_data)
                     /\ At(song_data, current_index + 1) = END_OF_FILE
       IN  /\ next_index' = (next_index \/ at_end)
           /\ signalled' = (signalled \/ at_end)
    /\ player_pc' = "loop"
    /\ UNCHANGED <<cvars, rvars, nvars, start_read_flag, currently_reading,
                   currently_streaming, song_data, song_data_length, stop,
                   stream_has_started, play_pause, start_stream_flag, written>>

\* ---- the server: ClientHandler ------------------------------------------

\* _communication_loop / _execute_request on "TERMINATE_SONG_DATA_RECV":
\* _terminate_song_data_send()
terminate_song_data_send ==
    /\ ctrl > 0
    /\ ctrl' = ctrl - 1
    /\ stop_send' = TRUE
    /\ stop_origin' = IF send_pc = "send" \/ stop_origin = "in_flight"
                      THEN "in_flight"
                      ELSE IF audio_c2s # <<>> \/ stop_origin = "pending"
                      THEN "pending"
                      ELSE "idle"
    /\ UNCHANGED <<cvars, rvars, pvars, evvars, audio_c2s, audio_s2c, send_pc,
                   send_song, send_i>>

\* _streaming_loop: streaming_tcp_recv(4); _send_song_data up to the while:
\* the count is sent, 0 when the song is not in the database
send_song_data_begin ==
    /\ send_pc = "recv"
    /\ audio_c2s # <<>>
    /\ LET id == Head(audio_c2s)
           n  == get_song_and_length(id)
       IN  /\ audio_s2c' = Append(audio_s2c,
                                  IF n >= 0 THEN CountItem(n, id)
                                            ELSE CountItem(0, 0))
           /\ send_pc' = IF n > 0 THEN "send" ELSE "recv"
           /\ send_song' = IF n > 0 THEN id ELSE 0
    /\ audio_c2s' = Tail(audio_c2s)
    /\ send_i' = 0
    /\ UNCHANGED <<cvars, rvars, pvars, evvars, ctrl, stop_send, stop_origin>>

\* (send_song and send_i, locals of _send_song_data, are dead once the send
\* is over and are put back to 0.)
\* one iteration of `while len(current_packet) == self._chunk * 4`:
\* with the stop flag set, the flag is cleared and "exit" sent, and the loop
\* breaks; otherwise "data" and the packet are sent and the next frame read
send_song_data_no_break(stop_flag, song, i, origin) ==
    IF stop_flag
    THEN [items |-> <<type_exit(origin), type_data, Packet(song, i)>>,
          stop_send |-> FALSE, i |-> i + 1,
          done |-> (i + 1 = get_song_and_length(song))]
    ELSE [items |-> <<type_data, Packet(song, i)>>,
          stop_send |-> stop_flag, i |-> i + 1,
          done |-> (i + 1 = get_song_and_length(song))]

send_song_data_iteration(stop_flag, song, i, origin) ==
    IF stop_flag
    THEN [items |-> <<type_exit(origin)>>,
          stop_send |-> FALSE, i |-> i, done |-> TRUE]
    ELSE [items |-> <<type_data, Packet(song, i)>>,
          stop_send |-> stop_flag, i |-> i + 1,
          done |-> (i + 1 = get_song_and_length(song))]

send_song_data ==
    /\ send_pc = "send"
    /\ LET r == send_song_data_iteration(stop_send, send_song, send_i,
                                         stop_origin)
       IN  /\ audio_s2c' = audio_s2c \o r.items
           /\ stop_send' = r.stop_send
           /\ send_i' = IF r.done THEN 0 ELSE r.i
           /\ send_song' = IF r.done THEN 0 ELSE send_song
           /\ send_pc' = IF r.done THEN "recv" ELSE "send"
           /\ stop_origin' = IF r.stop_send THEN stop_origin ELSE "none"
    /\ UNCHANGED <<cvars, rvars, pvars, evvars, audio_c2s, ctrl>>

\* ---- the specification ------------------------------------------------------

NotStream == <<qvars, mpvars, hvars, xvars>>

NextStream ==
    \/ \E t \in Callers : start_song_terminate_read(t) /\ UNCHANGED NotStream
    \/ \E t \in Callers : start_song_terminate_stream(t) /\ UNCHANGED NotStream
    \/ \E t \in Callers : start_song_send(t) /\ UNCHANGED NotStream
    \/ \E t \in Callers : start_read_set_flag(t) /\ UNCHANGED NotStream
    \/ \E t \in Callers : start_read_clear_reading(t) /\ UNCHANGED NotStream
    \/ \E t \in Callers : start_stream_clear(t) /\ UNCHANGED NotStream
    \/ \E t \in Callers : start_stream_set(t) /\ UNCHANGED NotStream
    \/ auto_next_clear /\ UNCHANGED NotStream
    \/ change_play_state /\ UNCHANGED NotStream
    \/ read_begin /\ UNCHANGED NotStream
    \/ read_length /\ UNCHANGED NotStream
    \/ read_frame /\ UNCHANGED NotStream
    \/ read_finally /\ UNCHANGED NotStream
    \/ read_set_reading /\ UNCHANGED NotStream
    \/ stream_begin /\ UNCHANGED NotStream
    \/ stream_loop_play /\ UNCHANGED NotStream
    \/ stream_loop_end /\ UNCHANGED NotStream
    \/ stream_write /\ UNCHANGED NotStream
    \/ stream_advance /\ UNCHANGED NotStream
    \/ terminate_song_data_send /\ UNCHANGED NotStream
    \/ send_song_data_begin /\ UNCHANGED NotStream
    \/ send_song_data /\ UNCHANGED NotStream

\* the client is connected and the queue holds one song per request id
InitStreamQ ==
    /\ queue = [k \in RequestIds |-> Song(k)]
    /\ ordered_queue = [k \in RequestIds |-> Id(k)]
    /\ raised = "none"
    /\ last_call = "none"
    /\ current_song_index = 0
    /\ repeat_state = 0
    /\ shuffle_state = 0
    /\ connected = TRUE
    /\ auto_alive = TRUE
    /\ started = <<0, 0>>

InitStream == InitStreamQ /\ InitEv /\ InitH /\ InitS /\ InitX

SpecStream == InitStream /\ [][NextStream]_vars

(***************************************************************************)
(* Claims checked under SpecStream                                         *)
(***************************************************************************)

\* C2: in every interleaving of the threads that call start_song, the
\* song-id request of a new song goes on the audio channel only when the
\* reader has finished the previous read (currently_reading set) and the
\* player has signalled the end of the previous stream (currently_streaming
\* set).
C2_RequestAfterBothTerminated ==
    [][Len(audio_c2s') > Len(audio_c2s)
          => currently_reading /\ currently_streaming]_vars

\* C3: when the stream loop ends a stream because the cursor is on the
\* END_OF_FILE sentinel, the whole song is in the buffer, no start_song is
\* under way, no terminate_stream was called on that stream and at least one
\* packet was written, then the player has set "stream ended" in that stream.
C3_StreamEndedAtSentinel ==
    [][(/\ player_pc = "loop"
        /\ stream_loop_cond(stop, song_data, current_index) = "end"
        /\ player_pc' = "wait_start"
        /\ ~stop_requested
        /\ \A t \in Callers : caller_pc[t] = "idle"
        /\ \E id \in CatalogIds : song_data = FullBuffer(id)
        /\ written # <<>>) => signalled]_vars

\* C4: while a caller waits for "stream terminated" after terminate_stream()
\* on an active stream, the stream loop is alive, so that it can consume the
\* stop flag and release the caller.
C4_TerminateReleases ==
    (/\ \E t \in Callers : caller_pc[t] = "wait_streaming"
     /\ stop
     /\ stream_has_started) => player_pc # "ZeroDivisionError"

\* C6: a terminate command processed when no send is in flight and no
\* request is waiting does not cut the next song: no "exit" tag on the
\* audio channel comes from a stop flag set in that situation.
C6_ExitOnlyForInFlightSend ==
    \A k \in 1..Len(audio_s2c) :
        audio_s2c[k][1] = "exit" => audio_s2c[k][2] # "idle"

\* C7: when the reader finishes the read of a reply to a catalog song, and
\* no terminate command was processed between the client's request and the
\* end of the send, the buffer is [pkt0, ..., pktN-1, END_OF_FILE].
C7_FullReplyInBuffer ==
    [][(/\ reader_pc = "finally"
        /\ reader_pc' = "set_reading"
        /\ reader_song \in CatalogIds
        /\ reader_cut \in {"none", "idle"})
            => song_data' = FullBuffer(reader_song)]_vars

\* frames the reply at the head of the channel may still hold, as the
\* reader counts them, and frames the server has still to send
ReaderRemaining == IF reader_pc = "recv_frame" THEN reader_n - reader_i ELSE 0
ServerRemaining == IF send_pc = "send"
                   THEN get_song_and_length(send_song) - send_i ELSE 0

\* reads chan as a sequence of replies, the first one with at most rem data
\* frames to come: the frames the last reply still lacks, -1 if chan is not
\* a sequence of replies
RECURSIVE Framing(_, _)
Framing(chan, rem) ==
    IF chan = <<>> THEN rem
    ELSE IF rem = 0
    THEN IF Head(chan)[1] = "count"
         THEN Framing(Tail(chan), Head(chan)[2]) ELSE -1
    ELSE IF Head(chan) = type_data
    THEN IF Len(chan) >= 2 /\ chan[2][1] = "pkt"
         THEN Framing(SubSeq(chan, 3, Len(chan)), rem - 1) ELSE -1
    ELSE IF Head(chan)[1] = "exit" THEN Framing(Tail(chan), 0)
    ELSE -1

\* C8: what is on the audio channel is, from the reader's position on, a
\* sequence of replies: a count, then at most that many frames, each a
\* "data" tag with its whole packet, then possibly one "exit" tag as the
\* last item; the reader never meets an item of another kind, and when it
\* has finished a read it stands at the start of the next reply.
C8_FrameBoundaries ==
    /\ ~desync
    /\ Framing(audio_s2c, ReaderRemaining) = ServerRemaining

C8_Witness ==
    /\ reader_pc = "finally"
    /\ reader_cut = "in_flight"
    /\ reader_i < reader_n
    /\ audio_s2c # <<>>

\* everything is back at the top of its loop and nothing is in flight
Quiescent ==
    /\ \A t \in Callers : caller_pc[t] = "idle"
    /\ reader_pc = "wait" /\ ~start_read_flag
    /\ player_pc = "wait_start" /\ ~start_stream_flag
    /\ audio_c2s = <<>> /\ audio_s2c = <<>> /\ send_pc = "recv"

\* C9: as long as only songs that are not in the catalog have been
\* requested, the server sends 0 counts only, the client writes no packet,
\* sets no "stream ended" and raises no error, and once everything is idle
\* again currently_reading and "stream terminated" are set.
C9_NotFoundSilent ==
    ~found_requested =>
        /\ \A k \in 1..Len(audio_s2c) : audio_s2c[k] = CountItem(0, 0)
        /\ written = <<>>
        /\ ~signalled /\ ~next_index
        /\ player_pc # "ZeroDivisionError"
        /\ Quiescent => currently_reading /\ currently_streaming

(***************************************************************************)
(* SpecSeek: Player.set_progress called on a player whose song has any     *)
(* number of frames.                                                       *)
(***************************************************************************)
MaxSeekFrames == 50    \* _song_data_length ranges over 0..MaxSeekFrames
MaxOver       == 1000  \* arguments range from -MaxOver to 1000 + MaxOver

\* the arguments tried: every tenth value of the slider's range, the
\* values just outside it and the values far outside it
SeekValues ==
    {0 - MaxOver, 0 - 1, 1001, 1000 + MaxOver} \cup {10 * x : x \in 0..100}

\* if value < 0: value = 0 / elif value > 1000: value = 1000
clamp_low(value) == IF value < 0 THEN 0 ELSE value

clamp(value) == IF value < 0 THEN 0 ELSE IF value > 1000 THEN 1000 ELSE value

\* (value, length - 1) whose exact product value / 1000 * (length - 1) is
\* a tie n + 1/2 while the double computed by CPython is not: it falls
\* below the tie in FloatBelowHalf and above it in FloatAboveHalf.  These
\* are all such pairs for value in 0..1000 and length - 1 in -1..119.
FloatBelowHalf ==
    {<<700, 45>>, <<820, 75>>, <<700, 85>>, <<350, 90>>, <<575, 100>>}

FloatAboveHalf == {<<140, 75>>, <<545, 100>>, <<550, 110>>}

RoundHalfUp(value, m) == ((value * m) + 500) \div 1000

\* round((value / 1000) * m) on doubles: to the nearest integer, a tie to
\* the even one, where the double product decides what a tie is
RoundProduct(value, m) ==
    IF <<value, m>> \in FloatBelowHalf THEN (value * m) \div 1000
    ELSE IF <<value, m>> \in FloatAboveHalf THEN ((value * m) \div 1000) + 1
    ELSE Round(value * m, 1000)

\* the cursor set_progress computes from its argument
index_from_percent(value, length) ==
    LET i == RoundProduct(clamp(value), length - 1)
    IN  IF i < 0 THEN 0 ELSE i

\* Player.set_progress(value)
set_progress(value) ==
    /\ current_index' = index_from_percent(value, song_data_length)
    /\ progress_value' = value
    /\ UNCHANGED <<qvars, mpvars, evvars, hvars, tvars, kvars, dvars, wvars>>
    /\ UNCHANGED <<cvars, rvars, nvars, player_pc, song_data,
                   song_data_length, stop, stream_has_started, play_pause,
                   start_stream_flag, written, signalled>>

NextSeek == \E value \in SeekValues : set_progress(value)

\* a player between streams: the reader has set the frame count, the
\* cursor is at 0
InitSeek ==
    /\ InitQ /\ InitMP /\ InitEv /\ InitH /\ InitSRest /\ InitX
    /\ song_data_length \in 0..MaxSeekFrames

SpecSeek == InitSeek /\ [][NextSeek]_vars

LastIndex == IF song_data_length = 0 THEN 0 ELSE song_data_length - 1

\* what C18 states about one call set_progress(v), the cursor before it
\* being the one the call set_progress(progress_value) left
C18_Common(v) ==
    /\ progress_value <= v => current_index <= current_index'
    /\ v <= progress_value => current_index' <= current_index
    /\ v = 0 => current_index' = 0
    /\ (v = 500 /\ song_data_length = 50) => current_index' = 24

\* C18 as stated: set_progress is monotonic, set_progress(0) gives cursor
\* 0, set_progress(1000) gives cursor frameCount - 1, and set_progress(500)
\* on a 50-frame song gives cursor 24.
C18_AsStated ==
    [][\A v \in SeekValues :
          (progress_value' = v /\ set_progress(v)) =>
              /\ C18_Common(v)
              /\ v = 1000 => current_index' = song_data_length - 1]_vars

\* C18, amended: set_progress is monotonic, set_progress(0) gives cursor 0,
\* set_progress(1000) gives cursor frameCount - 1 when there is at least one
\* frame and 0 when there is none, and set_progress(500) on a 50-frame song
\* gives cursor 24.
C18_ProgressMapping ==
    [][\A v \in SeekValues :
          (progress_value' = v /\ set_progress(v)) =>
              /\ C18_Common(v)
              /\ v = 1000 => current_index' = LastIndex]_vars

C18_Witness ==
    /\ song_data_length = 50
    /\ progress_value = 500
    /\ current_index = 24

\* C19: whatever the argument and the frame count, set_progress leaves the
\* cursor in 0..max(0, frameCount - 1); an argument below 0 gives the cursor
\* that 0 gives and an argument above 1000 the cursor that 1000 gives.
C19_SeekClamped ==
    [][\A v \in SeekValues :
          (progress_value' = v /\ set_progress(v)) =>
              /\ current_index' \in 0..LastIndex
              /\ v < 0 =>
                    current_index' = index_from_percent(0, song_data_length)
              /\ v > 1000 =>
                    current_index' = index_from_percent(1000, song_data_length)]_vars

C19_Witness ==
    /\ song_data_length = 0
    /\ progress_value = 1000 + MaxOver
    /\ current_index = 0

(***************************************************************************)
(* SpecChunk: one serialized search result sent by _search_for_song and    *)
(* received by _search_request_handler over the control connection, a      *)
(* stream of bytes.                                                        *)
(***************************************************************************)
chunk        == 1024   \* slice_song_bytes: chunk = 1024
MaxFirstByte == 1      \* the payload's first byte ranges over 0..MaxFirstByte

PayloadLengths == {0, 1, 1023, 1024, 1025, 2049}

\* byte p (from 0) of a payload is (first + p) % 251: no two chunks of a
\* payload are equal, so chunks received in another order or twice show
Payload(first, L) == [p \in 1..L |-> (first + p - 1) % 251]

\* int.to_bytes(4, "little") and int.from_bytes(.., "little")
to_bytes(n) ==
    <<n % 256, (n \div 256) % 256, (n \div 65536) % 256,
      (n \div 16777216) % 256>>

from_bytes(b) == b[1] + 256 * b[2] + 65536 * b[3] + 16777216 * b[4]

\* ceil(a / b) for a >= 0 and b > 0
ceil(a, b) == (a + b - 1) \div b

\* the slices with the count taken as len(s) // chunk + 1
slice_song_bytes_floor(s) ==
    LET starts == {i \in 0..(Len(s) - 1) : i % chunk = 0}
        end(k) == IF k * chunk <= Len(s) THEN k * chunk ELSE Len(s)
    IN  [data        |-> [k \in 1..Cardinality(starts) |->
                              SubSeq(s, (k - 1) * chunk + 1, end(k))],
         data_length |-> (Len(s) \div chunk) + 1]

\* data = [s[i: i + chunk] for i in range(0, len(s), chunk)],
\* data_length = ceil(len(s) / chunk)
slice_song_bytes(s) ==
    LET starts == {i \in 0..(Len(s) - 1) : i % chunk = 0}
        end(k) == IF k * chunk <= Len(s) THEN k * chunk ELSE Len(s)
    IN  [data        |-> [k \in 1..Cardinality(starts) |->
                              SubSeq(s, (k - 1) * chunk + 1, end(k))],
         data_length |-> ceil(Len(s), chunk)]

Sliced == slice_song_bytes(payload)

\* communication_tcp_send(data_length_bytes, 4)
srv_send_data_length ==
    /\ srv_pc = "send_data_length"
    /\ wire' = wire \o to_bytes(Sliced.data_length)
    /\ srv_i' = 0
    /\ srv_pc' = "send_chunks"
    /\ UNCHANGED <<payload, cli_pc, cli_j, cli_data_length,
                   cli_last_packet_length, serialized_song>>

\* for i in range(data_length - 1): communication_tcp_send(data[i], 1024)
srv_send_chunk ==
    /\ srv_pc = "send_chunks"
    /\ srv_i < Sliced.data_length - 1
    /\ wire' = wire \o Sliced.data[srv_i + 1]
    /\ srv_i' = srv_i + 1
    /\ UNCHANGED <<payload, srv_pc, cli_pc, cli_j, cli_data_length,
                   cli_last_packet_length, serialized_song>>

\* last_packet_length = len(data[-1]) and its 4 bytes; data[-1] of an
\* empty list raises IndexError, which _communication_loop does not catch
srv_send_last_packet_length ==
    /\ srv_pc = "send_chunks"
    /\ srv_i >= Sliced.data_length - 1
    /\ IF Len(Sliced.data) = 0
       THEN /\ srv_pc' = "IndexError"
            /\ wire' = wire
       ELSE /\ srv_pc' = "send_last"
            /\ wire' = wire \o to_bytes(Len(Sliced.data[Len(Sliced.data)]))
    /\ UNCHANGED <<payload, srv_i, cli_pc, cli_j, cli_data_length,
                   cli_last_packet_length, serialized_song>>

\* communication_tcp_send(data[-1], last_packet_length)
srv_send_last ==
    /\ srv_pc = "send_last"
    /\ wire' = wire \o Sliced.data[Len(Sliced.data)]
    /\ srv_pc' = "done"
    /\ UNCHANGED <<payload, srv_i, cli_pc, cli_j, cli_data_length,
                   cli_last_packet_length, serialized_song>>

\* communication_tcp_recv(bufsize) returns once bufsize bytes have come
CanRecv(bufsize) == Len(wire) >= bufsize

Recv(bufsize) == SubSeq(wire, 1, bufsize)

AfterRecv(bufsize) == SubSeq(wire, bufsize + 1, Len(wire))

\* data_length = int.from_bytes(communication_tcp_recv(4), "little");
\* serialized_song = b""
cli_recv_data_length ==
    /\ cli_pc = "recv_data_length"
    /\ CanRecv(4)
    /\ cli_data_length' = from_bytes(Recv(4))
    /\ wire' = AfterRecv(4)
    /\ serialized_song' = <<>>
    /\ cli_j' = 0
    /\ cli_pc' = "recv_chunks"
    /\ UNCHANGED <<payload, srv_pc, srv_i, cli_last_packet_length>>

\* for j in range(data_length - 1):
\*     serialized_song += communication_tcp_recv(1024)
cli_recv_chunk ==
    /\ cli_pc = "recv_chunks"
    /\ cli_j < cli_data_length - 1
    /\ CanRecv(1024)
    /\ serialized_song' = serialized_song \o Recv(1024)
    /\ wire' = AfterRecv(1024)
    /\ cli_j' = cli_j + 1
    /\ UNCHANGED <<payload, srv_pc, srv_i, cli_pc, cli_data_length,
                   cli_last_packet_length>>

\* last_packet_length = int.from_bytes(communication_tcp_recv(4), "little")
cli_recv_last_packet_length ==
    /\ cli_pc = "recv_chunks"
    /\ cli_j >= cli_data_length - 1
    /\ CanRecv(4)
    /\ cli_last_packet_length' = from_bytes(Recv(4))
    /\ wire' = AfterRecv(4)
    /\ cli_pc' = "recv_last"
    /\ UNCHANGED <<payload, srv_pc, srv_i, cli_j, cli_data_length,
                   serialized_song>>

\* serialized_song += communication_tcp_recv(last_packet_length)
cli_recv_last ==
    /\ cli_pc = "recv_last"
    /\ CanRecv(cli_last_packet_length)
    /\ serialized_song' = serialized_song \o Recv(cli_last_packet_length)
    /\ wire' = AfterRecv(cli_last_packet_length)
    /\ cli_pc' = "done"
    /\ UNCHANGED <<payload, srv_pc, srv_i, cli_j, cli_data_length,
                   cli_last_packet_length>>

NotChunk ==
    <<qvars, mpvars, evvars, hvars, svars, progress_value, kvars, dvars, wvars>>

NextChunk ==
    \/ srv_send_data_length /\ UNCHANGED NotChunk
    \/ srv_send_chunk /\ UNCHANGED NotChunk
    \/ srv_send_last_packet_length /\ UNCHANGED NotChunk
    \/ srv_send_last /\ UNCHANGED NotChunk
    \/ cli_recv_data_length /\ UNCHANGED NotChunk
    \/ cli_recv_chunk /\ UNCHANGED NotChunk
    \/ cli_recv_last_packet_length /\ UNCHANGED NotChunk
    \/ cli_recv_last /\ UNCHANGED NotChunk

\* the server is about to send one result, the client has read the number
\* of songs and is about to receive it
InitChunk ==
    /\ InitQ /\ InitMP /\ InitEv /\ InitH /\ InitS
    /\ \E first \in 0..MaxFirstByte : \E L \in PayloadLengths :
           payload = Payload(first, L)
    /\ wire = <<>>
    /\ srv_pc = "send_data_length"
    /\ srv_i = 0
    /\ cli_pc = "recv_data_length"
    /\ cli_j = 0
    /\ cli_data_length = 0
    /\ cli_last_packet_length = 0
    /\ serialized_song = <<>>
    /\ progress_value = 0
    /\ conn_pc = [ch \in Channels |-> "wait"]
    /\ reconnect = [ch \in Channels |-> FALSE]
    /\ outcome = [ch \in Channels |-> "none"]
    /\ attempts = [ch \in Channels |-> 0]
    /\ InitD
    /\ InitW

SpecChunk == InitChunk /\ [][NextChunk]_vars

\* the transfer has come to rest with the client holding the payload
RoundTripped == cli_pc = "done" /\ serialized_song = payload

RoundTripNonEmpty ==
    Len(payload) > 0 =>
        /\ cli_pc = "done" => serialized_song = payload
        /\ ~ENABLED NextChunk => RoundTripped

RoundTrippedLong == RoundTripped /\ Len(payload) = 2049

(***************************************************************************)
(* SpecConnect: the two _connect_to_server threads of the client, with     *)
(* start_song and the reader, the two places that set the media player's   *)
(* _reconnect again.                                                       *)
(***************************************************************************)
MaxAttempts == 3    \* connect() is called at most MaxAttempts times a channel

\* how socket.connect followed by the send of the client id can end
Outcomes == {"connected", "ConnectionRefusedError", "OSError"}

InnerLoop == {"try", "connect"}

\* where the thread goes after connect(): break on success, the inner loop
\* again after ConnectionRefusedError, break after any other OSError.  The
\* media player's try block starts with self._connected = False.
after_attempt_retry(ch, o) ==
    IF o = "connected" THEN "wait"
    ELSE IF ch = "audio" THEN "try" ELSE "connect"

after_attempt(ch, o) ==
    IF o = "ConnectionRefusedError"
    THEN IF ch = "audio" THEN "try" ELSE "connect"
    ELSE "wait"

\* self._reconnect.wait() returns
conn_wait(ch) ==
    /\ conn_pc[ch] = "wait"
    /\ reconnect[ch]
    /\ conn_pc' = [conn_pc EXCEPT ![ch] = "clear"]
    /\ outcome' = [outcome EXCEPT ![ch] = "none"]
    /\ UNCHANGED <<reconnect, attempts, connected, started>>

\* self._reconnect.clear(); a new socket is created
conn_clear(ch) ==
    /\ conn_pc[ch] = "clear"
    /\ reconnect' = [reconnect EXCEPT ![ch] = FALSE]
    /\ conn_pc' = [conn_pc EXCEPT ![ch] =
                      IF ch = "audio" THEN "try" ELSE "connect"]
    /\ UNCHANGED <<outcome, attempts, connected, started>>

\* MediaPlayer only: self._connected = False
conn_try ==
    /\ conn_pc["audio"] = "try"
    /\ connected' = FALSE
    /\ conn_pc' = [conn_pc EXCEPT !["audio"] = "connect"]
    /\ UNCHANGED <<reconnect, outcome, attempts, started>>

\* connect(), the send of the client id and, for the media player after
\* both went through, self._connected = True
conn_connect(ch) ==
    \E o \in Outcomes :
        /\ conn_pc[ch] = "connect"
        /\ attempts[ch] < MaxAttempts
        /\ attempts' = [attempts EXCEPT ![ch] = @ + 1]
        /\ outcome' = [outcome EXCEPT ![ch] = o]
        /\ conn_pc' = [conn_pc EXCEPT ![ch] = after_attempt(ch, o)]
        /\ connected' = IF ch = "audio" /\ o = "connected" THEN TRUE
                        ELSE connected
        /\ UNCHANGED <<reconnect, started>>

ConnFrame ==
    <<qvars, current_song_index, repeat_state, shuffle_state, auto_alive,
      evvars, hvars,
      svars, tvars, progress_value, dvars, wvars>>

\* the stream and reader state that SpecConnect leaves alone: all of svars
\* but the reader's position and the player's buffer
ConnSvars ==
    <<cvars, nvars, reader_n, reader_i, reader_song, reader_cut, desync,
      player_pc, song_data_length, current_index, stop, stream_has_started,
      play_pause, start_stream_flag, written, signalled>>

\* how streaming_tcp_send of the song id can end in start_song
SendOutcomes == {"sent", "ConnectionResetError"}

on_connection_reset_ignored(rc) == rc

\* except ConnectionResetError: self._reconnect.set()
on_connection_reset(rc) == [rc EXCEPT !["audio"] = TRUE]

\* MediaPlayer.start_song with the outcome of its send: the request goes
\* out and the read starts, or ConnectionResetError sets _reconnect.
\* Before the send the previous read and stream are terminated and awaited:
\* the wait for _currently_reading never returns when the reader thread is
\* dead with a read armed, and a stream that was active empties the buffer
\* when it ends (_set_end_conditions).
ConnStartSong(sent) ==
        LET M == start_song(MP)
            acts == queue # <<>> /\ connected
        IN  /\ acts => (currently_reading \/ reader_pc = "wait")
            /\ song_data' = IF acts /\ ~currently_streaming THEN <<>>
                            ELSE song_data
            /\ IF acts /\ M.raised = "none" /\ sent = "ConnectionResetError"
               THEN /\ reconnect' = on_connection_reset(reconnect)
                    /\ currently_reading' = TRUE
                    /\ currently_streaming' = TRUE
                    /\ last_call' = "other"
                    /\ UNCHANGED <<queue, ordered_queue, raised,
                                   current_song_index, repeat_state,
                                   shuffle_state, connected,
                                   auto_alive, started, start_read_flag,
                                   next_index, hvars, ConnSvars, reader_pc,
                                   tvars, progress_value, conn_pc, outcome,
                                   attempts, dvars, wvars>>
               ELSE /\ SetM(M, "start_song")
                    /\ currently_reading' =
                           IF M.started # started THEN FALSE
                           ELSE IF acts THEN TRUE ELSE currently_reading
                    /\ UNCHANGED <<auto_alive, start_read_flag, next_index,
                                   hvars, ConnSvars, reader_pc, tvars,
                                   progress_value, kvars, dvars, wvars>>

\* how a read of _read_from_server can end: the song was read to its end
\* or to an "exit" tag; recv raised ConnectionResetError; recv returned no
\* byte (the peer closed) and streaming_tcp_recv raised RuntimeError
ReadEnds == {"end", "ConnectionResetError", "closed"}

\* except ConnectionResetError: self._reconnect.set()
reader_sets_reconnect(how) == how = "ConnectionResetError"

\* an exception no except clause catches leaves the thread after finally
reader_after(how) == IF how = "closed" THEN "RuntimeError" ELSE "wait"

\* MediaPlayer._read_from_server: the read that start_song started ends;
\* finally appends the sentinel and sets _currently_reading
ConnReadEnds(how) ==
    /\ ~currently_reading
    /\ reader_pc = "wait"
    /\ reconnect' = IF reader_sets_reconnect(how)
                    THEN [reconnect EXCEPT !["audio"] = TRUE]
                    ELSE reconnect
    /\ song_data' = Append(song_data, END_OF_FILE)
    /\ currently_reading' = TRUE
    /\ reader_pc' = reader_after(how)
    /\ UNCHANGED <<qvars, mpvars, start_read_flag, next_index,
                   currently_streaming, hvars, ConnSvars, tvars,
                   progress_value, conn_pc, outcome, attempts, dvars, wvars>>

NextConnect ==
    \/ \E ch \in Channels : conn_wait(ch) /\ UNCHANGED ConnFrame
    \/ \E ch \in Channels : conn_clear(ch) /\ UNCHANGED ConnFrame
    \/ conn_try /\ UNCHANGED ConnFrame
    \/ \E ch \in Channels : conn_connect(ch) /\ UNCHANGED ConnFrame
    \/ MPAddToQueue
    \/ \E sent \in SendOutcomes : ConnStartSong(sent)
    \/ \E how \in ReadEnds : ConnReadEnds(how)

\* Controller.run and MediaPlayer.run have set both _reconnect events and
\* started the threads
InitConnect ==
    /\ InitQ /\ InitMP /\ InitEv /\ InitH /\ InitS
    /\ payload = <<>>
    /\ wire = <<>>
    /\ srv_pc = "idle"
    /\ srv_i = 0
    /\ cli_pc = "idle"
    /\ cli_j = 0
    /\ cli_data_length = 0
    /\ cli_last_packet_length = 0
    /\ serialized_song = <<>>
    /\ progress_value = 0
    /\ conn_pc = [ch \in Channels |-> "wait"]
    /\ reconnect = [ch \in Channels |-> TRUE]
    /\ outcome = [ch \in Channels |-> "none"]
    /\ attempts = [ch \in Channels |-> 0]
    /\ InitD
    /\ InitW

SpecConnect == InitConnect /\ [][NextConnect]_vars

\* what C20 states about channel ch, for any step
C20_Post(ch) ==
    /\ outcome'[ch] = "ConnectionRefusedError" => conn_pc'[ch] \in InnerLoop
    /\ outcome'[ch] = "OSError" =>
          /\ conn_pc'[ch] = "wait"
          /\ ch = "audio" => ~connected'
    /\ (outcome[ch] = "OSError" /\ ~reconnect[ch]) =>
          /\ attempts'[ch] = attempts[ch]
          /\ conn_pc'[ch] = conn_pc[ch]
          /\ outcome'[ch] = outcome[ch]
          /\ ch = "audio" => (connected' = connected /\ started' = started)

\* C20: on either channel, after a refused connection the thread is still
\* in its connection loop; after any other OSError it is back at the wait
\* for the reconnect signal with the media player not connected; and from
\* then on, as long as that signal is not set, no step makes a connection
\* attempt, moves the thread, changes _connected or sends a request from
\* start_song.
C20_ConnectionLoop == [][\A ch \in Channels : C20_Post(ch)]_vars

C20_Witness ==
    /\ \A ch \in Channels :
          /\ outcome[ch] = "OSError"
          /\ attempts[ch] >= 2
          /\ ~reconnect[ch]
    /\ queue # <<>>
    /\ started # <<0, 0>>

\* C21: when a read on the audio channel ends because the peer closed the
\* connection (a zero-byte read), the reconnect signal is set, the sentinel
\* is appended, currently_reading is set, and the reader is back at its
\* wait, where a later read can be armed and served.
C21_ClosedSetsReconnect ==
    [][ConnReadEnds("closed") =>
          /\ reconnect'["audio"]
          /\ song_data' # <<>> /\ song_data'[Len(song_data')] = END_OF_FILE
          /\ currently_reading'
          /\ reader_pc' = "wait"]_vars

\* what does hold of such a read, and of one ended by ConnectionResetError
ReadEndFinally ==
    [][\A how \in ReadEnds : ConnReadEnds(how) =>
          /\ song_data'[Len(song_data')] = END_OF_FILE
          /\ currently_reading'
          /\ how = "ConnectionResetError" =>
                 (reconnect'["audio"] /\ reader_pc' = "wait")]_vars

RECURSIVE Joined(_)
Joined(chunks) ==
    IF Len(chunks) = 0 THEN <<>>
    ELSE Joined(SubSeq(chunks, 1, Len(chunks) - 1)) \o chunks[Len(chunks)]

\* C26: slice_song_bytes(payload) returns ceil(len(payload) / 1024) chunks
\* and that number as the count; the chunks joined are the payload, every
\* chunk but the last has 1024 bytes and the last has 1 to 1024 bytes.
C26_SliceSongBytes ==
    LET data == Sliced.data
        n    == Sliced.data_length
    IN  /\ n = Len(data)
        /\ n * 1024 >= Len(payload) /\ (n - 1) * 1024 < Len(payload)
        /\ Joined(data) = payload
        /\ \A k \in 1..(n - 1) : Len(data[k]) = 1024
        /\ n > 0 => Len(data[n]) \in 1..1024

C26_Witness ==
    /\ Len(payload) = 1025
    /\ srv_pc = "send_last"
    /\ srv_i = 1
    /\ Len(wire) = 4 + 1024 + 4

\* what C27 states about a pass of the send loop that finds the stop flag
\* set: the flag is cleared, one "exit" tag is sent, and the song's
\* transfer is over
C27_Exit ==
    /\ ~stop_send'
    /\ audio_s2c' = Append(audio_s2c, type_exit(stop_origin))
    /\ send_pc' = "recv"

C27_Data == audio_s2c' = audio_s2c \o <<type_data, Packet(send_song, send_i)>>

\* C27 as stated: the first frame of a found song is always sent as a
\* "data" frame; before a later frame the stop flag is checked, and when it
\* is set it is cleared, a single "exit" tag is sent and no further frame of
\* the song is sent.
C27_AsStated ==
    [][send_song_data =>
          /\ send_i = 0 => C27_Data
          /\ (send_i > 0 /\ stop_send) => C27_Exit
          /\ (send_i > 0 /\ ~stop_send) => C27_Data]_vars

\* C27, amended: the stop flag is checked before every frame, the first
\* included: when it is set it is cleared, a single "exit" tag is sent and
\* no frame of the song is sent after it; otherwise the frame is sent as a
\* "data" frame.
C27_StopCheckedBeforeEveryFrame ==
    [][send_song_data =>
          /\ stop_send => C27_Exit
          /\ ~stop_send => C27_Data]_vars

\* the "exit" tag follows the frame count at once: no frame was sent
C27_Witness ==
    /\ Len(audio_s2c) >= 2
    /\ audio_s2c[Len(audio_s2c) - 1][1] = "count"
    /\ audio_s2c[Len(audio_s2c) - 1][2] > 0
    /\ audio_s2c[Len(audio_s2c)][1] = "exit"
    /\ send_pc = "recv"

\* C28: once terminate_stream() has set the stop flag of a stream, the
\* player does not set "stream ended" for that stream any more, whatever
\* the order of the reader's sentinel, the stop flag and the player's
\* steps; the stream only ends with "stream terminated".
C28_TerminatedNotEnded ==
    [][(stop /\ stream_advance) =>
          (next_index' = next_index /\ signalled' = signalled)]_vars

(* C29: when both loops of a handler observe connection loss, the          *)
(* "remove_client_handler" event is fired exactly once for the handler in  *)
(* every interleaving of the two _terminate_self calls: never more than    *)
(* once, and once when both calls are over.                                *)
C29_FiredExactlyOnce ==
    \A h \in Handlers :
        /\ fired[h] <= 1
        /\ ((\A l \in Loops : loop_pc[h][l] \in {"returned", "AttributeError"})
                => fired[h] = 1)

\* both _terminate_self calls passed the test concurrently: one of them fired
\* and the other one ended on the del of an attribute that was gone
C29_Witness ==
    \E h \in Handlers :
        /\ fired[h] = 1
        /\ \E l \in Loops : loop_pc[h][l] = "AttributeError"
        /\ \E l \in Loops : loop_pc[h][l] = "returned"

(***************************************************************************)
(* SpecPair: the server's two acceptor loops and its pairing loop.  The    *)
(* threads are _streaming_listening_loop, _communication_listening_loop    *)
(* and _create_client_handler_loop; a step is one statement.  A socket is  *)
(* the record of its accept number, the listening socket it came from and  *)
(* the full id its peer sent.                                              *)
(***************************************************************************)
MaxAccepted == 2     \* SpecPair: connections each acceptor loop accepts

\* client_socket of the n-th accept() of loop l, the peer's full id being k
Socket(n, l, k) == [no |-> n, channel |-> l, id |-> k]

\* ClientHandler(client_full_id, streaming_socket, communication_socket, ...)
ClientHandler(k, s, c) ==
    [id |-> k, streaming_socket |-> s, communication_socket |-> c]

\* a del that leaves the entry in the dict
del_entry_kept(d, k) == d

\* del d[k]
del_entry(d, k) == [d EXCEPT ![k] = NoSocket]

\* accept(), recv(6) and _get_client_full_id in the acceptor loop l
listening_accept(l, k) ==
    /\ listening_pc[l] = "accept"
    /\ accepted[l] < MaxAccepted
    /\ accepted' = [accepted EXCEPT ![l] = @ + 1]
    /\ listening_socket' =
           [listening_socket EXCEPT ![l] = Socket(accepted[l] + 1, l, k)]
    /\ listening_pc' = [listening_pc EXCEPT ![l] = "record"]
    /\ UNCHANGED <<client_streaming_sockets, client_communication_sockets,
                   new_client, create_pc, create_keys, client_full_id,
                   create_args, clients>>

\* self._client_<l>_sockets[client_full_id] = client_socket
listening_record(l) ==
    /\ listening_pc[l] = "record"
    /\ IF l = "streaming"
       THEN /\ client_streaming_sockets' =
                   [client_streaming_sockets EXCEPT
                       ![listening_socket[l].id] = listening_socket[l]]
            /\ UNCHANGED client_communication_sockets
       ELSE /\ client_communication_sockets' =
                   [client_communication_sockets EXCEPT
                       ![listening_socket[l].id] = listening_socket[l]]
            /\ UNCHANGED client_streaming_sockets
    /\ listening_pc' = [listening_pc EXCEPT ![l] = "set"]
    /\ UNCHANGED <<new_client, accepted, listening_socket, create_pc,
                   create_keys, client_full_id, create_args, clients>>

\* self._new_client.set()
listening_set(l) ==
    /\ listening_pc[l] = "set"
    /\ new_client' = TRUE
    /\ listening_pc' = [listening_pc EXCEPT ![l] = "accept"]
    /\ UNCHANGED <<client_streaming_sockets, client_communication_sockets,
                   accepted, listening_socket, create_pc, create_keys,
                   client_full_id, create_args, clients>>

\* self._new_client.wait()
create_wait ==
    /\ create_pc = "wait"
    /\ new_client
    /\ create_pc' = "clear"
    /\ UNCHANGED <<client_streaming_sockets, client_communication_sockets,
                   new_client, accepted, listening_pc, listening_socket,
                   create_keys, client_full_id, create_args, clients>>

\* self._new_client.clear()
create_clear ==
    /\ create_pc = "clear"
    /\ new_client' = FALSE
    /\ create_pc' = "list"
    /\ UNCHANGED <<client_streaming_sockets, client_communication_sockets,
                   accepted, listening_pc, listening_socket, create_keys,
                   client_full_id, create_args, clients>>

\* list(self._client_streaming_sockets): the keys at this moment
create_list ==
    /\ create_pc = "list"
    /\ create_keys' = {k \in FullIds : client_streaming_sockets[k] # NoSocket}
    /\ create_pc' = "for"
    /\ UNCHANGED <<client_streaming_sockets, client_communication_sockets,
                   new_client, accepted, listening_pc, listening_socket,
                   client_full_id, create_args, clients>>

\* for client_full_id in ...: if client_full_id in
\* self._client_communication_sockets; the loop is over when no key is left
create_for ==
    /\ create_pc = "for"
    /\ IF create_keys = {}
       THEN /\ create_pc' = "wait"
            /\ UNCHANGED <<create_keys, client_full_id>>
       ELSE \E k \in create_keys :
               /\ create_keys' = create_keys \ {k}
               /\ client_full_id' = k
               /\ create_pc' =
                      IF client_communication_sockets[k] # NoSocket
                      THEN "streaming_socket" ELSE "for"
    /\ UNCHANGED <<client_streaming_sockets, client_communication_sockets,
                   new_client, accepted, listening_pc, listening_socket,
                   create_args, clients>>

\* the argument self._client_streaming_sockets[client_full_id]
create_streaming_socket ==
    /\ create_pc = "streaming_socket"
    /\ IF client_streaming_sockets[client_full_id] = NoSocket
       THEN /\ create_pc' = "KeyError"
            /\ UNCHANGED create_args
       ELSE /\ create_args' = <<client_streaming_sockets[client_full_id]>>
            /\ create_pc' = "communication_socket"
    /\ UNCHANGED <<client_streaming_sockets, client_communication_sockets,
                   new_client, accepted, listening_pc, listening_socket,
                   create_keys, client_full_id, clients>>

\* the argument self._client_communication_sockets[client_full_id]
create_communication_socket ==
    /\ create_pc = "communication_socket"
    /\ IF client_communication_sockets[client_full_id] = NoSocket
       THEN /\ create_pc' = "KeyError"
            /\ UNCHANGED create_args
       ELSE /\ create_args' =
                   Append(create_args,
                          client_communication_sockets[client_full_id])
            /\ create_pc' = "append"
    /\ UNCHANGED <<client_streaming_sockets, client_communication_sockets,
                   new_client, accepted, listening_pc, listening_socket,
                   create_keys, client_full_id, clients>>

\* self._clients.append(ClientHandler(...))
create_append ==
    /\ create_pc = "append"
    /\ clients' = Append(clients, ClientHandler(client_full_id, create_args[1],
                                                create_args[2]))
    /\ create_args' = <<>>
    /\ create_pc' = "del_streaming"
    /\ UNCHANGED <<client_streaming_sockets, client_communication_sockets,
                   new_client, accepted, listening_pc, listening_socket,
                   create_keys, client_full_id>>

\* del self._client_streaming_sockets[client_full_id]
create_del_streaming ==
    /\ create_pc = "del_streaming"
    /\ client_streaming_sockets' =
           del_entry(client_streaming_sockets, client_full_id)
    /\ create_pc' = "del_communication"
    /\ UNCHANGED <<client_communication_sockets, new_client, accepted,
                   listening_pc, listening_socket, create_keys, client_full_id,
                   create_args, clients>>

\* del self._client_communication_sockets[client_full_id]
create_del_communication ==
    /\ create_pc = "del_communication"
    /\ client_communication_sockets' =
           del_entry(client_communication_sockets, client_full_id)
    /\ create_pc' = "for"
    /\ UNCHANGED <<client_streaming_sockets, new_client, accepted,
                   listening_pc, listening_socket, create_keys, client_full_id,
                   create_args, clients>>

NotPair ==
    <<qvars, mpvars, evvars, handler_state, loop_pc, communication_loop_ended,
      streaming_loop_ended, thread_attr, conn_open, fired, svars, tvars,
      progress_value, kvars, wvars>>

\* a step of _create_client_handler_loop
create_client_handler_loop ==
    \/ create_wait /\ UNCHANGED NotPair
    \/ create_clear /\ UNCHANGED NotPair
    \/ create_list /\ UNCHANGED NotPair
    \/ create_for /\ UNCHANGED NotPair
    \/ create_streaming_socket /\ UNCHANGED NotPair
    \/ create_communication_socket /\ UNCHANGED NotPair
    \/ create_append /\ UNCHANGED NotPair
    \/ create_del_streaming /\ UNCHANGED NotPair
    \/ create_del_communication /\ UNCHANGED NotPair

\* a step of the acceptor loop l after its accept() has returned
listening_loop(l) ==
    \/ listening_record(l) /\ UNCHANGED NotPair
    \/ listening_set(l) /\ UNCHANGED NotPair

NextPair ==
    \/ \E l \in Loops, k \in FullIds : listening_accept(l, k) /\ UNCHANGED NotPair
    \/ \E l \in Loops : listening_loop(l)
    \/ create_client_handler_loop

InitPair == InitQ /\ InitMP /\ InitEv /\ InitH /\ InitS /\ InitX

SpecPair == InitPair /\ [][NextPair]_vars

\* every started thread keeps running: the pairing loop and, once accept()
\* has returned, each acceptor loop take their next step
SpecPairFair ==
    /\ SpecPair
    /\ WF_vars(create_client_handler_loop)
    /\ \A l \in Loops : WF_vars(listening_loop(l))

\* the sockets the handlers of the registry hold
Handed ==
    {clients[i].streaming_socket : i \in DOMAIN clients}
        \cup {clients[i].communication_socket : i \in DOMAIN clients}

\* the pairing loop is between the append and the end of the two dels
InHandOver == create_pc \in {"del_streaming", "del_communication"}

(* C22: the dispatcher creates a handler only for a full id present in     *)
(* both pending maps and hands it the audio and the control connection     *)
(* recorded under that id; both entries are removed; no accepted           *)
(* connection is held by two handlers and no handler holds connections     *)
(* recorded under two different ids.                                       *)
C22_PairedOnce ==
    /\ create_pc \in {"streaming_socket", "communication_socket", "append"} =>
          /\ client_streaming_sockets[client_full_id] # NoSocket
          /\ client_communication_sockets[client_full_id] # NoSocket
    /\ create_pc # "KeyError"
    /\ \A i \in DOMAIN clients :
          /\ clients[i].streaming_socket.id = clients[i].id
          /\ clients[i].streaming_socket.channel = "streaming"
          /\ clients[i].communication_socket.id = clients[i].id
          /\ clients[i].communication_socket.channel = "communication"
    /\ \A i, j \in DOMAIN clients :
          i # j =>
             /\ clients[i].streaming_socket # clients[j].streaming_socket
             /\ clients[i].communication_socket # clients[j].communication_socket
    /\ ~InHandOver =>
          \A k \in FullIds :
             /\ client_streaming_sockets[k] \notin Handed
             /\ client_communication_sockets[k] \notin Handed
    /\ create_pc = "del_communication" =>
          client_streaming_sockets[client_full_id] \notin Handed

\* two handlers were created, for the same full id, and the pairing loop is
\* through with the second one
C22_Witness ==
    /\ Len(clients) = 2
    /\ clients[1].id = clients[2].id
    /\ create_pc = "wait"

\* no wake-up is lost: while the pairing loop waits and a full id is in
\* both maps, the event is set or an acceptor loop is about to set it
NoLostWakeUp ==
    \A k \in FullIds :
        (/\ create_pc = "wait"
         /\ client_streaming_sockets[k] # NoSocket
         /\ client_communication_sockets[k] # NoSocket)
            => (new_client \/ \E l \in Loops : listening_pc[l] = "set")

(* C30: once an audio connection and a control connection with the same    *)
(* full id are both recorded in the pending maps, the pairing loop         *)
(* eventually creates a handler for the two, in every interleaving of the  *)
(* acceptor loops with the pairing loop.                                   *)
C30_PairedEventually ==
    \A k \in FullIds : \A n, m \in 1..MaxAccepted :
        (/\ client_streaming_sockets[k] = Socket(n, "streaming", k)
         /\ client_communication_sockets[k] = Socket(m, "communication", k))
            ~> (\E i \in DOMAIN clients :
                    clients[i] = ClientHandler(k, Socket(n, "streaming", k),
                                               Socket(m, "communication", k)))

(* C34: in every reachable state with a non-empty queue the current song   *)
(* index is a position of the queue: 0 <= current_song_index < len(queue). *)
C34_IndexInRange ==
    Len(queue) > 0 =>
        (0 <= current_song_index /\ current_song_index < Len(queue))

(* C32: after unshuffle(k) on a queue with distinct song ids whose         *)
(* insertion order holds exactly the ids of the play order, at most two    *)
(* play-order positions hold a song other than the one the insertion       *)
(* order names there: position k and the insertion-order position of the   *)
(* song that sits at k.                                                    *)
C32_AtMostTwoUnrestored ==
    [][\A k \in 0..(Len(queue) - 1) :
         (/\ last_call' = "unshuffle"
          /\ DistinctIds(queue) /\ HoldsIds(queue, ordered_queue)
          /\ QUnshuffle(k))
         => /\ Cardinality(Misplaced(queue', ordered_queue')) <= 2
            /\ Misplaced(queue', ordered_queue')
                   \subseteq ({k} \cup PositionsOf(ordered_queue',
                                                   Id(song_id(At(queue', k)))))]_vars

\* unshuffle has left the first and the last of three distinct songs
\* exchanged
C32_Witness ==
    /\ last_call = "unshuffle"
    /\ raised = "none"
    /\ Len(queue) = 3
    /\ DistinctIds(queue)
    /\ HoldsIds(queue, ordered_queue)
    /\ Misplaced(queue, ordered_queue) = {0, 2}

(* C35: set_shuffle_state(0) completes without an error in every          *)
(* reachable queue state, also after play_this has inserted a song: the    *)
(* lookup of the song of every insertion-order entry finds an element.     *)
C35_UnshuffleCompletes ==
    [][MPSetShuffleState(0) => raised' = "none"]_vars

(* C36: for every frame count N >= 1, N = 1 included, the progress value   *)
(* computed for a packet the stream loop has written is a number in        *)
(* 0..1000, and the stream loop never stops abnormally.                    *)
C36_ProgressForEveryPacket ==
    /\ player_pc # "ZeroDivisionError"
    /\ (player_pc = "write" /\ current_index < Len(song_data)) =>
          /\ progress_from_index(current_index, song_data_length).raised = "none"
          /\ progress_from_index(current_index, song_data_length).value \in 0..1000

\* the packets written in the stream being played are the buffer entries
\* 0, 1, 2, ... in order, each once, and the cursor is on the last one
\* written (the player is in the wait) or just behind it
WrittenInOrder ==
    /\ Len(written) <= Len(song_data)
    /\ \A i \in 1..Len(written) : written[i] = song_data[i]
    /\ player_pc \in {"loop", "write"} => Len(written) = current_index
    /\ player_pc = "play_pause_wait" => Len(written) = current_index + 1

(* C31: after pause() the player writes at most one further packet: a      *)
(* write made while the flag is clear leads into the wait, and in the wait *)
(* with the flag clear the cursor and the packets written stay as they are *)
(* until the flag is set (play, or a termination); the packets written     *)
(* are the buffer entries in order, none skipped and none written twice.   *)
C31_PauseHoldsCursor ==
    [][/\ (~play_pause /\ player_pc = "write" /\ player_pc' # "write")
            => player_pc' \in {"play_pause_wait", "ZeroDivisionError", "loop"}
       /\ (~play_pause /\ player_pc = "write" /\ written' # written)
            => player_pc' \in {"play_pause_wait", "ZeroDivisionError"}
       /\ (~play_pause /\ player_pc = "play_pause_wait")
            => /\ current_index' = current_index
               /\ written' = written
               /\ player_pc' = player_pc
       /\ (player_pc' \in {"loop", "write", "play_pause_wait"})
            => WrittenInOrder']_vars

\* the player is held in the wait by a pause, a packet is written and the
\* next one is in the buffer
C31_Witness ==
    /\ ~play_pause
    /\ ~stop
    /\ player_pc = "play_pause_wait"
    /\ Len(written) >= 1
    /\ Len(song_data) > current_index + 1
    /\ song_data[current_index + 2] # END_OF_FILE

(***************************************************************************)
(* SpecNet: the client's network-request queue.  The threads are the       *)
(* callers of _add_network_request and _communication_loop; a step is one  *)
(* statement.  A request is the number of its append.                      *)
(***************************************************************************)
MaxNetRequests == 3     \* SpecNet: requests added in a run

\* self._network_request_queue.append(network_request)
add_network_request_append(t) ==
    /\ add_pc[t] = "idle"
    /\ added < MaxNetRequests
    /\ added' = added + 1
    /\ network_request_queue' = Append(network_request_queue, added + 1)
    /\ add_pc' = [add_pc EXCEPT ![t] = "set"]
    /\ UNCHANGED <<new_network_request_flag, net_pc, network_request,
                   sent_requests, stream_loop_continue, exit_pc>>

\* self._new_network_request_flag.set()
add_network_request_set(t) ==
    /\ add_pc[t] = "set"
    /\ new_network_request_flag' = TRUE
    /\ add_pc' = [add_pc EXCEPT ![t] = "idle"]
    /\ UNCHANGED <<network_request_queue, net_pc, network_request,
                   sent_requests, added, stream_loop_continue, exit_pc>>

\* self._new_network_request_flag.wait()
net_wait ==
    /\ net_pc = "wait"
    /\ new_network_request_flag
    /\ net_pc' = "head"
    /\ UNCHANGED <<network_request_queue, new_network_request_flag,
                   network_request, sent_requests, add_pc, added,
                   stream_loop_continue, exit_pc>>

\* network_request = self._network_request_queue[0]
net_head ==
    /\ net_pc = "head"
    /\ IF network_request_queue = <<>>
       THEN /\ net_pc' = "IndexError"
            /\ UNCHANGED network_request
       ELSE /\ network_request' = Head(network_request_queue)
            /\ net_pc' = "execute"
    /\ UNCHANGED <<network_request_queue, new_network_request_flag,
                   sent_requests, add_pc, added, stream_loop_continue, exit_pc>>

\* self._execute_network_request(network_request): the request is sent
net_execute ==
    /\ net_pc = "execute"
    /\ sent_requests' = Append(sent_requests, network_request)
    /\ net_pc' = "del"
    /\ UNCHANGED <<network_request_queue, new_network_request_flag,
                   network_request, add_pc, added, stream_loop_continue,
                   exit_pc>>

\* del self._network_request_queue[0]
net_del ==
    /\ net_pc = "del"
    /\ IF network_request_queue = <<>>
       THEN /\ net_pc' = "IndexError"
            /\ UNCHANGED network_request_queue
       ELSE /\ network_request_queue' = Tail(network_request_queue)
            /\ net_pc' = "len"
    /\ UNCHANGED <<new_network_request_flag, network_request, sent_requests,
                   add_pc, added, stream_loop_continue, exit_pc>>

\* if len(self._network_request_queue) == 0
net_len ==
    /\ net_pc = "len"
    /\ net_pc' = IF Len(network_request_queue) = 0 THEN "clear" ELSE "wait"
    /\ UNCHANGED <<network_request_queue, new_network_request_flag,
                   network_request, sent_requests, add_pc, added,
                   stream_loop_continue, exit_pc>>

\* self._new_network_request_flag.clear()
net_clear ==
    /\ net_pc = "clear"
    /\ new_network_request_flag' = FALSE
    /\ net_pc' = "wait"
    /\ UNCHANGED <<network_request_queue, network_request, sent_requests,
                   add_pc, added, stream_loop_continue, exit_pc>>

NotNet == <<qvars, mpvars, evvars, hvars, svars, tvars, progress_value, kvars,
            dvars>>

\* a step of Controller._communication_loop
net_communication_loop ==
    \/ net_wait /\ UNCHANGED NotNet
    \/ net_head /\ UNCHANGED NotNet
    \/ net_execute /\ UNCHANGED NotNet
    \/ net_del /\ UNCHANGED NotNet
    \/ net_len /\ UNCHANGED NotNet
    \/ net_clear /\ UNCHANGED NotNet

NextNet ==
    \/ \E t \in Requesters : add_network_request_append(t) /\ UNCHANGED NotNet
    \/ \E t \in Requesters : add_network_request_set(t) /\ UNCHANGED NotNet
    \/ net_communication_loop

InitNet == InitQ /\ InitMP /\ InitEv /\ InitH /\ InitS /\ InitX

SpecNet == InitNet /\ [][NextNet]_vars

\* the communication loop keeps running, and a thread that has appended
\* its request goes on to set the flag
SpecNetFair ==
    /\ SpecNet
    /\ WF_vars(net_communication_loop)
    /\ \A t \in Requesters : WF_vars(add_network_request_set(t) /\ UNCHANGED NotNet)

\* the requests sent are the first requests appended, in the order of the
\* appends, each once; the loop never reads an empty queue
SentInOrder ==
    /\ net_pc # "IndexError"
    /\ \A i \in 1..Len(sent_requests) : sent_requests[i] = i

(* C37: every request appended to the network-request queue is eventually  *)
(* sent to the server, in every interleaving of _add_network_request with  *)
(* the communication loop.                                                 *)
C37_EveryRequestSent ==
    \A r \in 1..MaxNetRequests :
        (\E i \in 1..Len(network_request_queue) : network_request_queue[i] = r)
            ~> (\E i \in 1..Len(sent_requests) : sent_requests[i] = r)

(***************************************************************************)
(* SpecExit: MediaPlayer.exit against the threads of SpecStream.  The      *)
(* thread that calls exit is the window's; a step is one statement of      *)
(* exit, exit_stream_loop and terminate_stream.  Once exit has been       *)
(* called the user does nothing and no further song is started; a          *)
(* start_song under way goes on.                                           *)
(***************************************************************************)
MaxExitRequests == 2     \* SpecExit: start_song calls in one behaviour

\* Player.exit_stream_loop, first statement: _stream_loop_continue = False
exit_stream_loop_continue ==
    /\ exit_pc = "idle"
    /\ stream_loop_continue' = FALSE
    /\ exit_pc' = "set_start_flag"
    /\ UNCHANGED <<svars, evvars>>

\* Player.exit_stream_loop, second statement: _start_stream_flag.set()
exit_stream_loop_set ==
    /\ exit_pc = "set_start_flag"
    /\ start_stream_flag' = TRUE
    /\ exit_pc' = "terminate_stream"
    /\ UNCHANGED <<cvars, rvars, evvars, nvars, player_pc, song_data,
                   song_data_length, current_index, stop, stream_has_started,
                   play_pause, written, signalled, stream_loop_continue>>

\* self._player.terminate_stream()
exit_terminate_stream ==
    /\ exit_pc = "terminate_stream"
    /\ stop' = TRUE
    /\ play_pause' = TRUE
    /\ stop_requested' = TRUE
    /\ exit_pc' = "wait_streaming"
    /\ UNCHANGED <<caller_pc, nreq, found_requested, rvars, evvars, nvars,
                   player_pc, song_data, song_data_length, current_index,
                   stream_has_started, start_stream_flag, written, signalled,
                   stream_loop_continue>>

\* self._currently_streaming.wait()
exit_wait ==
    /\ exit_pc = "wait_streaming"
    /\ currently_streaming
    /\ exit_pc' = "close"
    /\ UNCHANGED <<svars, evvars, stream_loop_continue>>

\* self._stream_client.close(); exit returns
exit_close ==
    /\ exit_pc = "close"
    /\ exit_pc' = "returned"
    /\ UNCHANGED <<svars, evvars, stream_loop_continue>>

NotExit == <<qvars, mpvars, hvars, tvars, progress_value, kvars, dvars,
             network_request_queue, new_network_request_flag, net_pc,
             network_request, sent_requests, add_pc, added>>

\* a step of the thread that runs MediaPlayer.exit
exit_thread ==
    \/ exit_stream_loop_continue /\ UNCHANGED NotExit
    \/ exit_stream_loop_set /\ UNCHANGED NotExit
    \/ exit_terminate_stream /\ UNCHANGED NotExit
    \/ exit_wait /\ UNCHANGED NotExit
    \/ exit_close /\ UNCHANGED NotExit

\* a step of a thread inside start_song (and _auto_next_song after it)
exit_caller_thread(t) ==
    \/ start_song_terminate_stream(t) /\ UNCHANGED NotStream
    \/ start_song_send(t) /\ UNCHANGED NotStream
    \/ start_read_set_flag(t) /\ UNCHANGED NotStream
    \/ start_read_clear_reading(t) /\ UNCHANGED NotStream
    \/ start_stream_clear(t) /\ UNCHANGED NotStream
    \/ start_stream_set(t) /\ UNCHANGED NotStream
    \/ t = "auto" /\ auto_next_clear /\ UNCHANGED NotStream

\* a step of the read_thread
exit_read_thread ==
    \/ read_begin /\ UNCHANGED NotStream
    \/ read_length /\ UNCHANGED NotStream
    \/ read_frame /\ UNCHANGED NotStream
    \/ read_finally /\ UNCHANGED NotStream
    \/ read_set_reading /\ UNCHANGED NotStream

\* a step of the song_thread, which runs Player.stream_loop
exit_song_thread ==
    \/ stream_begin /\ UNCHANGED NotStream
    \/ stream_loop_play /\ UNCHANGED NotStream
    \/ stream_loop_end /\ UNCHANGED NotStream
    \/ stream_write /\ UNCHANGED NotStream
    \/ stream_advance /\ UNCHANGED NotStream

\* a step of the server's handler
exit_handler_threads ==
    \/ terminate_song_data_send /\ UNCHANGED NotStream
    \/ send_song_data_begin /\ UNCHANGED NotStream
    \/ send_song_data /\ UNCHANGED NotStream

NextExit ==
    \/ \E t \in Callers :
          /\ nreq < MaxExitRequests
          /\ exit_pc = "idle"
          /\ start_song_terminate_read(t) /\ UNCHANGED NotStream
    \/ exit_pc = "idle" /\ change_play_state /\ UNCHANGED NotStream
    \/ \E t \in Callers : exit_caller_thread(t)
    \/ exit_read_thread
    \/ exit_song_thread
    \/ exit_handler_threads
    \/ exit_thread

InitExit == InitStream

SpecExit == InitExit /\ [][NextExit]_vars

\* every thread that can take a step takes one; nothing obliges the user to
\* ask for a song or to press play/pause
SpecExitFair ==
    /\ SpecExit
    /\ WF_vars(exit_thread)
    /\ \A t \in Callers : WF_vars(exit_caller_thread(t))
    /\ WF_vars(exit_read_thread)
    /\ WF_vars(exit_song_thread)
    /\ WF_vars(exit_handler_threads)

\* exit waits for "stream terminated" while the event is clear and the
\* stream loop has left by its break, past every statement that sets it
ExitStuck ==
    /\ exit_pc = "wait_streaming"
    /\ ~currently_streaming
    /\ player_pc = "exited"
    /\ \A t \in Callers : caller_pc[t] = "idle"

(* C38: MediaPlayer.exit always returns: from any player state, after      *)
(* exit_stream_loop() and terminate_stream() the wait on "stream           *)
(* terminated" completes and the stream loop thread ends.                  *)
C38_ExitReturns ==
    (exit_pc # "idle") ~> (exit_pc = "returned" /\ player_pc = "exited")

\* a step of the thread of loop l of handler h
handler_thread(h, l) ==
    \/ l = "communication" /\ communication_loop(h) /\ UNCHANGED NotHandler
    \/ l = "streaming" /\ streaming_loop(h) /\ UNCHANGED NotHandler
    \/ terminate_self_check(h, l) /\ UNCHANGED NotHandler
    \/ terminate_self_del_communication(h, l) /\ UNCHANGED NotHandler
    \/ terminate_self_del_streaming(h, l) /\ UNCHANGED NotHandler
    \/ terminate_self_fire(h, l) /\ UNCHANGED NotHandler

\* the loop threads keep running, and the pairing loop goes on from the
\* constructor call to the append; nothing obliges a client to connect or
\* to close a connection
SpecHandlerFair ==
    /\ SpecHandler
    /\ \A h \in Handlers, l \in Loops : WF_vars(handler_thread(h, l))
    /\ \A h \in Handlers : WF_vars(AppendClientHandler(h) /\ UNCHANGED NotHandler)

\* the handler fired its removal before the pairing loop appended it
RemovedBeforeAppended ==
    \E h \in Handlers :
        /\ fired[h] = 1
        /\ handler_state[h] = "appended"
        /\ Contains(clients, h)

(* C39: once both loops of a handler have observed connection loss, the    *)
(* handler is eventually absent from the server's registry and stays       *)
(* absent, in every interleaving of the handler's loops with the pairing   *)
(* loop's append of the new handler.                                       *)
C39_EventuallyAbsent ==
    \A h \in Handlers :
        (communication_loop_ended[h] /\ streaming_loop_ended[h])
            ~> [](~Contains(clients, h))

\* the client with full id k has a handler, its control connection is the
\* one that handler holds, and socket n is an audio connection it made since
Reconnected(k, n) ==
    /\ \E i \in DOMAIN clients :
          /\ clients[i].id = k
          /\ clients[i].streaming_socket # Socket(n, "streaming", k)
    /\ client_streaming_sockets[k] = Socket(n, "streaming", k)
    /\ client_communication_sockets[k] = NoSocket
    /\ listening_pc["communication"] = "accept"

(* C40: after the client's audio connection is lost and re-established     *)
(* (connect and identifier handshake done) while the control connection    *)
(* stays up, a song-id request sent on the new audio connection is         *)
(* eventually answered by a server handler: some handler comes to hold     *)
(* the new audio connection, the only way its requests are ever read.      *)
C40_ReconnectedAudioServed ==
    \A k \in FullIds : \A n \in 1..MaxAccepted :
        Reconnected(k, n)
            ~> (\E i \in DOMAIN clients :
                    clients[i].streaming_socket = Socket(n, "streaming", k))

\* thread t is inside start_song, the last call of next_song, previous_song,
\* play_this and play_playlist_songs
InStartSong(t) == caller_pc[t] \notin {"idle", "clear_next"}

(* C33: the current song index and the queue are written by at most one    *)
(* thread at a time: a next_song / start_song run by the auto-advance      *)
(* thread after a "stream ended" signal never overlaps a call run by the   *)
(* internal-request thread.                                                *)
C33_NoOverlap == ~(InStartSong("auto") /\ InStartSong("internal"))

=============================================================================
